---- MODULE Spec2Model ----
(***************************************************************************)
(* A model of the Atlantis API client (services/atlantis/atlantis.py) and   *)
(* of the git operations of the GitHub client (services/github/github.py). *)
(*                                                                         *)
(* Python values are represented as follows.                               *)
(*   - Optional[T]: a sequence of length <= 1; None is <<>>, a value x is  *)
(*     <<x>>.  A value is "falsy" when it is None, "" or 0.                *)
(*   - dict: a function whose domain is a set of strings.                  *)
(*   - list: a sequence.                                                   *)
(*   - the base URL, an endpoint and a request URL: sequences of text      *)
(*     atoms, the atom "/" being the slash character, so that rstrip("/")  *)
(*     and the f-string concatenation work on the characters that matter.  *)
(*     The atom "h" is a scheme and host such as                           *)
(*     https://atlantis.example.com; a URL that does not begin with it     *)
(*     names no server, and requests.request raises on it.                 *)
(***************************************************************************)
EXTENDS Integers, Sequences, FiniteSets, TLC

VARIABLES
    service,    \* Optional[AtlantisService]: the constructed instance, if any
    init,       \* Optional: the last constructor call, its arguments and outcome
    call,       \* Optional: the last public operation invoked and its arguments
    sent,       \* the requests handed to requests.request during the last invocation
    transport,  \* Optional: what requests.request produced for the last request
    result,     \* Optional: what the last invocation returned or raised
    store,      \* the remote repository: its branch references and git objects
    reflog,     \* the reference creations and updates the remote accepted, in order
    procs,      \* the callers of GitHubService: operation, position and locals of each
    github      \* Optional: the GitHubService constructor call, its arguments and outcome

atlantisVars == <<service, init, call, sent, transport, result>>
gitVars == <<store, reflog, procs, github>>
vars == <<service, init, call, sent, transport, result, store, reflog, procs, github>>

-----------------------------------------------------------------------------
(* Bounds *)

MaxUrlLen == 2      \* longest configured base_url, in atoms

-----------------------------------------------------------------------------
(* Python values *)

None == <<>>
Some(x) == <<x>>
EmptyDict == [k \in {} |-> 0]

\* bool(x) for an Optional[str]
TruthyStr(o) == o # None /\ o[1] # ""
\* bool(x) for an Optional[int]
TruthyInt(o) == o # None /\ o[1] # 0

Returned(v) == [kind |-> "return", value |-> v]
Raised(e) == [kind |-> "raise", value |-> e]

\* the GitHub client is not in use
NoGit == store = None /\ reflog = <<>> /\ procs = None /\ github = None

\* dict.get(key, default)
DictGet(d, key, default) == IF key \in DOMAIN d THEN d[key] ELSE default

\* str.rstrip("/")
RECURSIVE RStripSlash(_)
RStripSlash(s) ==
    IF s # <<>> /\ s[Len(s)] = "/" THEN RStripSlash(SubSeq(s, 1, Len(s) - 1)) ELSE s

-----------------------------------------------------------------------------
(* AtlantisService.__init__ *)

BaseUrlRequiredError == "base_url is required"
AuthRequiredError ==
    "Either username/password or token must be provided for authentication"

\* AuthMissing as it would be if a token given together with a username and
\* password were refused as well
AuthMissing_RejectsBoth(username, password, token) ==
    \/ ~TruthyStr(username) /\ ~TruthyStr(password) /\ ~TruthyStr(token)
    \/ TruthyStr(username) /\ TruthyStr(password) /\ TruthyStr(token)

\* the guard of the second raise
AuthMissing(username, password, token) ==
    ~TruthyStr(username) /\ ~TruthyStr(password) /\ ~TruthyStr(token)

\* self.headers after the authentication set-up
InitHeaders(username, password, token) ==
    IF TruthyStr(token)
    THEN ("X-Atlantis-Token" :> token[1]) @@ ("Authorization" :> ("Bearer " \o token[1]))
    ELSE EmptyDict

\* InitAuth with "if" in place of "elif": the credential is set beside a token
InitAuth_NoElif(username, password, token) ==
    IF TruthyStr(username) /\ TruthyStr(password)
    THEN Some([username |-> username[1], password |-> password[1]])
    ELSE None

\* self.auth after the authentication set-up
InitAuth(username, password, token) ==
    IF TruthyStr(token) THEN None
    ELSE IF TruthyStr(username) /\ TruthyStr(password)
         THEN Some([username |-> username[1], password |-> password[1]])
         ELSE None

\* InitBaseUrl removing one trailing slash only
InitBaseUrl_StripOne(base_url) ==
    IF base_url # <<>> /\ base_url[Len(base_url)] = "/"
    THEN SubSeq(base_url, 1, Len(base_url) - 1)
    ELSE base_url

\* self.base_url
InitBaseUrl(base_url) == RStripSlash(base_url)

\* The constructor: the exception raised, if any, and the instance built, if any.
AtlantisInit(base_url, username, password, token, verify_ssl, timeout) ==
    IF base_url = <<>>
    THEN [raised |-> Some(BaseUrlRequiredError), obj |-> None]
    ELSE IF AuthMissing(username, password, token)
    THEN [raised |-> Some(AuthRequiredError), obj |-> None]
    ELSE [raised |-> None,
          obj |-> Some([base_url |-> InitBaseUrl(base_url),
                        timeout |-> timeout,
                        verify_ssl |-> verify_ssl,
                        auth |-> InitAuth(username, password, token),
                        headers |-> InitHeaders(username, password, token)])]

-----------------------------------------------------------------------------
(* Inputs *)

UrlAtoms == {"h", "/"}
RECURSIVE SeqsUpTo(_, _)
SeqsUpTo(S, n) ==
    IF n = 0 THEN {<<>>}
    ELSE LET shorter == SeqsUpTo(S, n - 1)
         IN shorter \cup {Append(s, a) : s \in shorter, a \in S}

BaseUrls == SeqsUpTo(UrlAtoms, MaxUrlLen)
Usernames == {None, Some(""), Some("user")}
Passwords == {None, Some(""), Some("pass")}
Tokens == {None, Some(""), Some("tok")}
Timeouts == {30, 60}

-----------------------------------------------------------------------------
(* Construction *)

Construct(base_url, username, password, token, verify_ssl, timeout) ==
    LET out == AtlantisInit(base_url, username, password, token, verify_ssl, timeout)
    IN /\ service = None
       /\ init' = Some([base_url |-> base_url, username |-> username,
                        password |-> password, token |-> token,
                        verify_ssl |-> verify_ssl, timeout |-> timeout,
                        raised |-> out.raised])
       /\ service' = out.obj
       /\ UNCHANGED <<call, sent, transport, result>>
       /\ UNCHANGED gitVars

InitCtor ==
    /\ service = None
    /\ init = None
    /\ call = None
    /\ sent = <<>>
    /\ transport = None
    /\ result = None
    /\ NoGit

NextCtor ==
    \E base_url \in BaseUrls, username \in Usernames, password \in Passwords,
       token \in Tokens, verify_ssl \in BOOLEAN, timeout \in Timeouts :
        Construct(base_url, username, password, token, verify_ssl, timeout)

SpecInit == InitCtor /\ [][NextCtor]_vars

-----------------------------------------------------------------------------
(* The transport: requests.request and the Response it hands back *)

EmptyText == ""
EmptyObjectText == "{}"
ObjectText ==
    "{\"projects\": [\"p2\", \"p1\"], \"locks\": [{\"id\": \"l1\", \"repo\": \"o/r\"}, {\"id\": \"l2\", \"repo\": \"o/q\"}], \"events\": [\"e2\", \"e1\", \"e2\"]}"
InvalidText == "oops"

BodyTexts == {EmptyText, EmptyObjectText, ObjectText, InvalidText}
StatusCodes == {200, 204, 304, 404, 500}

\* the bodies a response of a status arrives with: any body with 200, a body or
\* none with 204 and 404, none with the others
TextsOf(status_code) ==
    CASE status_code = 200 -> BodyTexts
      [] status_code \in {204, 404} -> {EmptyText, ObjectText}
      [] OTHER -> {EmptyText}

Responses ==
    {r \in [status_code : StatusCodes, text : BodyTexts] : r.text \in TextsOf(r.status_code)}

Exception(type, response) == [type |-> type, response |-> response]

\* what requests.request does: it raises (no response), or it returns a Response
Transports ==
    {[exc |-> Some(Exception(e, None)), response |-> None] :
        e \in {"ConnectionError", "MissingSchema"}}
    \cup {[exc |-> None, response |-> Some(r)] : r \in Responses}

\* what requests.request does with a request for url: a URL without scheme
\* and host is refused before anything is sent to a server
TransportsFor(url) ==
    IF url # <<>> /\ Head(url) = "h"
    THEN {tr \in Transports : tr.exc # Some(Exception("MissingSchema", None))}
    ELSE {[exc |-> Some(Exception("MissingSchema", None)), response |-> None]}

\* response.json(): the value parsed, or the decode error raised
JsonLoads(text) ==
    CASE text = EmptyObjectText -> Returned(EmptyDict)
      [] text = ObjectText ->
            Returned(("projects" :> <<"p2", "p1">>)
                  @@ ("locks" :> <<[id |-> "l1", repo |-> "o/r"],
                                   [id |-> "l2", repo |-> "o/q"]>>)
                  @@ ("events" :> <<"e2", "e1", "e2">>))
      [] OTHER -> Raised(Exception("JSONDecodeError", None))

\* RaiseForStatus raising on server errors alone
RaiseForStatus_ServerErrorsOnly(status_code) == 500 <= status_code /\ status_code < 600

\* response.raise_for_status() raises HTTPError
RaiseForStatus(status_code) == 400 <= status_code /\ status_code < 600

-----------------------------------------------------------------------------
(* AtlantisService._make_request *)

\* HandleResponse without the 204 test: only a blank body gives the empty mapping
HandleResponse_No204(response) ==
    IF RaiseForStatus(response.status_code)
    THEN Raised(Exception("HTTPError", Some(response)))
    ELSE IF response.text = EmptyText
         THEN Returned(EmptyDict)
         ELSE JsonLoads(response.text)

\* the part of _make_request after requests.request returned a Response
HandleResponse(response) ==
    IF RaiseForStatus(response.status_code)
    THEN Raised(Exception("HTTPError", Some(response)))
    ELSE IF response.status_code = 204 \/ response.text = EmptyText
         THEN Returned(EmptyDict)
         ELSE JsonLoads(response.text)

\* url = f"{self.base_url}{endpoint}"
RequestUrl(self, endpoint) == self.base_url \o endpoint

\* MakeRequest leaving verify at the default of requests.request
MakeRequest_DefaultVerify(self, method, endpoint, params, json_data, tr) ==
    [sent |-> <<[method |-> method,
                 url |-> RequestUrl(self, endpoint),
                 params |-> params,
                 json |-> json_data,
                 auth |-> self.auth,
                 headers |-> self.headers,
                 verify |-> TRUE,
                 timeout |-> self.timeout]>>,
     result |-> IF tr.exc # None THEN Raised(tr.exc[1])
                ELSE HandleResponse(tr.response[1])]

\* MakeRequest sending the request a second time after a failure
MakeRequest_Retry(self, method, endpoint, params, json_data, tr) ==
    LET request == [method |-> method,
                    url |-> RequestUrl(self, endpoint),
                    params |-> params,
                    json |-> json_data,
                    auth |-> self.auth,
                    headers |-> self.headers,
                    verify |-> self.verify_ssl,
                    timeout |-> self.timeout]
        failed == \/ tr.exc # None
                  \/ RaiseForStatus(tr.response[1].status_code)
    IN [sent |-> IF failed THEN <<request, request>> ELSE <<request>>,
        result |-> IF tr.exc # None THEN Raised(tr.exc[1])
                   ELSE HandleResponse(tr.response[1])]

\* One call of _make_request with tr what requests.request produces:
\* the requests handed to requests.request, and what the call returns or raises.
MakeRequest(self, method, endpoint, params, json_data, tr) ==
    [sent |-> <<[method |-> method,
                 url |-> RequestUrl(self, endpoint),
                 params |-> params,
                 json |-> json_data,
                 auth |-> self.auth,
                 headers |-> self.headers,
                 verify |-> self.verify_ssl,
                 timeout |-> self.timeout]>>,
     result |-> IF tr.exc # None THEN Raised(tr.exc[1])
                ELSE HandleResponse(tr.response[1])]

\* response.get(field, []) applied to what _make_request returned
Unwrap(out, field) ==
    IF out.result.kind = "raise" THEN out
    ELSE [sent |-> out.sent, result |-> Returned(DictGet(out.result.value, field, <<>>))]

-----------------------------------------------------------------------------
(* Endpoints *)

ProjectsPath == <<"/", "api", "/", "projects">>
ProjectPath == <<"/", "api", "/", "project">>
ProjectStatusPath == <<"/", "api", "/", "project", "/", "status">>
LocksPath == <<"/", "api", "/", "locks">>
EventsPath == <<"/", "api", "/", "events">>
VersionPath == <<"/", "api", "/", "version">>
HealthPath == <<"/", "api", "/", "health">>
PlanPath == <<"/", "api", "/", "plan">>
ApplyPath == <<"/", "api", "/", "apply">>
TestPath == <<"/", "api", "/", "test">>

-----------------------------------------------------------------------------
(* Query parameters and JSON bodies assembled by the public operations *)

\* params of get_project
GetProjectParams(repo, project, branch) ==
    ("repo" :> repo)
    @@ (IF TruthyStr(project) THEN "project" :> project[1] ELSE EmptyDict)
    @@ (IF TruthyStr(branch) THEN "branch" :> branch[1] ELSE EmptyDict)

\* params of get_project_status
GetProjectStatusParams(repo, project, branch) ==
    ("repo" :> repo)
    @@ (IF TruthyStr(project) THEN "project" :> project[1] ELSE EmptyDict)
    @@ (IF TruthyStr(branch) THEN "branch" :> branch[1] ELSE EmptyDict)

\* params of get_locks
GetLocksParams(repo) ==
    IF TruthyStr(repo) THEN "repo" :> repo[1] ELSE EmptyDict

\* params of delete_lock
DeleteLockParams(lock_id, repo, project) ==
    ("id" :> lock_id)
    @@ (IF TruthyStr(repo) THEN "repo" :> repo[1] ELSE EmptyDict)
    @@ (IF TruthyStr(project) THEN "project" :> project[1] ELSE EmptyDict)

\* params of get_events
GetEventsParams(limit) ==
    IF TruthyInt(limit) THEN "limit" :> limit[1] ELSE EmptyDict

\* PlanPayload testing the truth of pr_number instead of comparing it with None
PlanPayload_Truthy(repository, ref, vcs_type, paths, pr_number) ==
    ("Repository" :> repository) @@ ("Ref" :> ref) @@ ("Type" :> vcs_type)
    @@ ("Paths" :> paths)
    @@ (IF TruthyInt(pr_number) THEN "PR" :> pr_number[1] ELSE EmptyDict)

\* payload of plan
PlanPayload(repository, ref, vcs_type, paths, pr_number) ==
    ("Repository" :> repository) @@ ("Ref" :> ref) @@ ("Type" :> vcs_type)
    @@ ("Paths" :> paths)
    @@ (IF pr_number # None THEN "PR" :> pr_number[1] ELSE EmptyDict)

\* payload of apply
ApplyPayload(repository, ref, vcs_type, paths, pr_number) ==
    ("Repository" :> repository) @@ ("Ref" :> ref) @@ ("Type" :> vcs_type)
    @@ ("Paths" :> paths)
    @@ (IF pr_number # None THEN "PR" :> pr_number[1] ELSE EmptyDict)

-----------------------------------------------------------------------------
(* The public operations: the requests sent and what the call returns or raises *)

GetProjects(self, tr) ==
    Unwrap(MakeRequest(self, "GET", ProjectsPath, None, None, tr), "projects")

GetProject(self, repo, project, branch, tr) ==
    MakeRequest(self, "GET", ProjectPath,
                Some(GetProjectParams(repo, project, branch)), None, tr)

\* GetProjectStatus sent to the path of get_project
GetProjectStatus_WrongPath(self, repo, project, branch, tr) ==
    MakeRequest(self, "GET", ProjectPath,
                Some(GetProjectStatusParams(repo, project, branch)), None, tr)

GetProjectStatus(self, repo, project, branch, tr) ==
    MakeRequest(self, "GET", ProjectStatusPath,
                Some(GetProjectStatusParams(repo, project, branch)), None, tr)

\* the entries of a list whose repo field is repo
RECURSIVE OfRepo(_, _)
OfRepo(list, repo) ==
    IF list = <<>> THEN <<>>
    ELSE IF Head(list).repo = repo
         THEN <<Head(list)>> \o OfRepo(Tail(list), repo)
         ELSE OfRepo(Tail(list), repo)

\* GetLocks filtering the locks returned by the repo asked for
GetLocks_LocalFilter(self, repo, tr) ==
    LET out == Unwrap(MakeRequest(self, "GET", LocksPath, Some(GetLocksParams(repo)),
                                  None, tr), "locks")
    IN IF out.result.kind = "return" /\ TruthyStr(repo)
       THEN [sent |-> out.sent,
             result |-> Returned(OfRepo(out.result.value, repo[1]))]
       ELSE out

GetLocks(self, repo, tr) ==
    Unwrap(MakeRequest(self, "GET", LocksPath, Some(GetLocksParams(repo)), None, tr),
           "locks")

DeleteLock(self, lock_id, repo, project, tr) ==
    MakeRequest(self, "DELETE", LocksPath,
                Some(DeleteLockParams(lock_id, repo, project)), None, tr)

GetEvents(self, limit, tr) ==
    Unwrap(MakeRequest(self, "GET", EventsPath, Some(GetEventsParams(limit)), None, tr),
           "events")

GetVersion(self, tr) == MakeRequest(self, "GET", VersionPath, None, None, tr)

GetHealth(self, tr) == MakeRequest(self, "GET", HealthPath, None, None, tr)

Plan(self, repository, ref, vcs_type, paths, pr_number, tr) ==
    MakeRequest(self, "POST", PlanPath, None,
                Some(PlanPayload(repository, ref, vcs_type, paths, pr_number)), tr)

Apply(self, repository, ref, vcs_type, paths, pr_number, tr) ==
    MakeRequest(self, "POST", ApplyPath, None,
                Some(ApplyPayload(repository, ref, vcs_type, paths, pr_number)), tr)

-----------------------------------------------------------------------------
(* Arguments of the public operations *)

Repos == {"o/r"}
OptRepos == {None, Some(""), Some("o/r")}
OptProjects == {None, Some(""), Some("default")}
OptBranches == {None, Some("main")}
LockIds == {"lock-1"}
Limits == {None, Some(0), Some(10)}
Refs == {"main"}
VcsTypes == {"Github"}
PathLists == {<<[Directory |-> ".", Workspace |-> "default"]>>}
PrNumbers == {None, Some(0), Some(7)}
Methods == {"GET", "PUT"}

-----------------------------------------------------------------------------
(* Invocations *)

\* One invocation of operation op on the instance: out is what the operation
\* sent and produced when requests.request produced tr.
Invoke(op, args, out, tr) ==
    /\ service # None
    /\ \A i \in 1..Len(out.sent) : tr \in TransportsFor(out.sent[i].url)
    /\ call' = Some([op |-> op, args |-> args])
    /\ sent' = out.sent
    /\ transport' = Some(tr)
    /\ result' = Some(out.result)
    /\ UNCHANGED <<service, init>>
    /\ UNCHANGED gitVars

CallMakeRequest ==
    \E method \in Methods, tr \in Transports :
        Invoke("_make_request", [method |-> method, endpoint |-> TestPath],
               MakeRequest(service[1], method, TestPath, None, None, tr), tr)

CallGetProjects ==
    \E tr \in Transports :
        Invoke("get_projects", EmptyDict, GetProjects(service[1], tr), tr)

CallGetProject ==
    \E repo \in Repos, project \in OptProjects, branch \in OptBranches,
       tr \in Transports :
        Invoke("get_project", [repo |-> repo, project |-> project, branch |-> branch],
               GetProject(service[1], repo, project, branch, tr), tr)

CallGetProjectStatus ==
    \E repo \in Repos, project \in OptProjects, branch \in OptBranches,
       tr \in Transports :
        Invoke("get_project_status",
               [repo |-> repo, project |-> project, branch |-> branch],
               GetProjectStatus(service[1], repo, project, branch, tr), tr)

CallGetLocks ==
    \E repo \in OptRepos, tr \in Transports :
        Invoke("get_locks", [repo |-> repo], GetLocks(service[1], repo, tr), tr)

CallDeleteLock ==
    \E lock_id \in LockIds, repo \in OptRepos, project \in OptProjects,
       tr \in Transports :
        Invoke("delete_lock", [lock_id |-> lock_id, repo |-> repo, project |-> project],
               DeleteLock(service[1], lock_id, repo, project, tr), tr)

CallGetEvents ==
    \E limit \in Limits, tr \in Transports :
        Invoke("get_events", [limit |-> limit], GetEvents(service[1], limit, tr), tr)

CallGetVersion ==
    \E tr \in Transports :
        Invoke("get_version", EmptyDict, GetVersion(service[1], tr), tr)

CallGetHealth ==
    \E tr \in Transports :
        Invoke("get_health", EmptyDict, GetHealth(service[1], tr), tr)

CallPlan ==
    \E repository \in Repos, ref \in Refs, vcs_type \in VcsTypes, paths \in PathLists,
       pr_number \in PrNumbers, tr \in Transports :
        Invoke("plan",
               [repository |-> repository, ref |-> ref, vcs_type |-> vcs_type,
                paths |-> paths, pr_number |-> pr_number],
               Plan(service[1], repository, ref, vcs_type, paths, pr_number, tr), tr)

CallApply ==
    \E repository \in Repos, ref \in Refs, vcs_type \in VcsTypes, paths \in PathLists,
       pr_number \in PrNumbers, tr \in Transports :
        Invoke("apply",
               [repository |-> repository, ref |-> ref, vcs_type |-> vcs_type,
                paths |-> paths, pr_number |-> pr_number],
               Apply(service[1], repository, ref, vcs_type, paths, pr_number, tr), tr)

-----------------------------------------------------------------------------
(* The client in use: a constructed instance and a sequence of invocations *)

\* every instance the constructor builds from the inputs
Instances ==
    {AtlantisInit(base_url, username, password, token, verify_ssl, timeout).obj :
        base_url \in BaseUrls, username \in Usernames, password \in Passwords,
        token \in Tokens, verify_ssl \in BOOLEAN, timeout \in Timeouts} \ {None}

Init ==
    /\ service \in Instances
    /\ init = None
    /\ call = None
    /\ sent = <<>>
    /\ transport = None
    /\ result = None
    /\ NoGit

Next ==
    \/ CallGetEvents
    \/ CallMakeRequest
    \/ CallGetProjects
    \/ CallGetProject
    \/ CallGetProjectStatus
    \/ CallGetLocks
    \/ CallDeleteLock
    \/ CallGetVersion
    \/ CallGetHealth
    \/ CallPlan
    \/ CallApply

Spec == Init /\ [][Next]_vars

-----------------------------------------------------------------------------
(* Properties of construction, checked under SpecInit *)

\* a credential the caller supplied: present and not empty
Supplied(o) == o # None /\ o[1] # ""

Constructed == init # None /\ init[1].raised = None /\ service # None
Rejected == init # None /\ init[1].raised # None /\ service = None

TokenHeaderNames == {"X-Atlantis-Token", "Authorization"}
TokenHeadersOf(token) ==
    [h \in TokenHeaderNames |->
        IF h = "X-Atlantis-Token" THEN token ELSE "Bearer " \o token]

\* C1: construction raises, and yields no instance, whenever base_url is empty
\* or neither a token nor both a username and a password are supplied.
C1_RejectsMissingConfiguration ==
    init # None =>
        LET a == init[1]
        IN (\/ a.base_url = <<>>
            \/ ~(Supplied(a.token) \/ (Supplied(a.username) /\ Supplied(a.password))))
           => Rejected

\* C2 as claimed: a construction given both a token and a username+password
\* pair is rejected.
C2_BothRejected ==
    init # None =>
        LET a == init[1]
        IN (Supplied(a.token) /\ Supplied(a.username) /\ Supplied(a.password))
           => Rejected

\* C2 as amended: a construction given a non-empty base_url, a token and a
\* username+password pair succeeds and configures token authentication alone;
\* a construction given no token, no username and no password is rejected.
C2_BothAccepted ==
    init # None =>
        LET a == init[1]
        IN /\ (/\ a.base_url # <<>>
               /\ Supplied(a.token) /\ Supplied(a.username) /\ Supplied(a.password))
              => /\ Constructed
                 /\ service[1].headers = TokenHeadersOf(a.token[1])
                 /\ service[1].auth = None
           /\ (~Supplied(a.token) /\ ~Supplied(a.username) /\ ~Supplied(a.password))
              => Rejected

C2_Witness ==
    /\ Constructed
    /\ Supplied(init[1].token)
    /\ Supplied(init[1].username)
    /\ Supplied(init[1].password)

\* C3: on every constructed instance the two mechanisms exclude each other:
\* with a token only, both token headers are set and auth is None; with a
\* username and password only, auth is the basic credential and no token
\* header is set; token headers and basic auth are never set together.
C3_AuthMechanismsExclusive ==
    Constructed =>
        LET a == init[1]
            self == service[1]
        IN /\ (Supplied(a.token) /\ ~Supplied(a.username) /\ ~Supplied(a.password))
              => /\ self.headers = TokenHeadersOf(a.token[1])
                 /\ self.auth = None
           /\ (~Supplied(a.token) /\ Supplied(a.username) /\ Supplied(a.password))
              => /\ self.auth = Some([username |-> a.username[1],
                                      password |-> a.password[1]])
                 /\ DOMAIN self.headers \cap TokenHeaderNames = {}
           /\ ~(DOMAIN self.headers \cap TokenHeaderNames # {} /\ self.auth # None)

C3_Witness ==
    /\ Constructed
    /\ ~Supplied(init[1].token)
    /\ service[1].auth # None
    /\ service[1].headers = EmptyDict

-----------------------------------------------------------------------------
(* Properties of the invocations, checked under Spec *)

Called(op) == call # None /\ call[1].op = op
Answered == call # None /\ transport[1].response # None
LastResponse == transport[1].response[1]
LastResult == result[1]

Is2xx(status_code) == 200 <= status_code /\ status_code < 300
IsError(status_code) == 400 <= status_code /\ status_code < 600

HttpErrorOf(response) == Raised([type |-> "HTTPError", response |-> Some(response)])

\* the operations that hand back what _make_request returned, as it is
PassThroughOps ==
    {"_make_request", "get_project", "get_project_status", "delete_lock",
     "get_version", "get_health", "plan", "apply"}

\* C4 as claimed: every response whose status is not 2xx raises the HTTP error,
\* and a value is returned for 2xx responses only.
C4_RaisesOnEveryNon2xx ==
    Answered =>
        /\ ~Is2xx(LastResponse.status_code) => LastResult = HttpErrorOf(LastResponse)
        /\ LastResult.kind = "return" => Is2xx(LastResponse.status_code)

\* C4 as amended: every response whose status is 4xx or 5xx raises the HTTP
\* error, and a value is returned only for a response whose status is neither;
\* a response of any other status, 3xx included, raises no HTTP error.
C4_RaisesOnErrorStatus ==
    Answered =>
        /\ IsError(LastResponse.status_code) => LastResult = HttpErrorOf(LastResponse)
        /\ LastResult.kind = "return" => ~IsError(LastResponse.status_code)
        /\ ~IsError(LastResponse.status_code)
           => ~(LastResult.kind = "raise" /\ LastResult.value.type = "HTTPError")

C4_Witness ==
    /\ Answered
    /\ LastResponse.status_code = 404
    /\ LastResult = HttpErrorOf(LastResponse)

\* C5 as claimed: whatever the method, _make_request returns the empty mapping
\* for every response of status 204 or of empty body, and otherwise the body
\* parsed as JSON.
C5_EmptyMappingOnEveryBlankResponse ==
    (Answered /\ call[1].op \in PassThroughOps) =>
        LastResult = IF LastResponse.status_code = 204 \/ LastResponse.text = ""
                     THEN Returned(EmptyDict)
                     ELSE JsonLoads(LastResponse.text)

\* C5 as amended: whatever the method, for every response whose status is not
\* 4xx or 5xx _make_request returns the empty mapping when the status is 204 or
\* the body is empty, and otherwise the outcome of parsing the body as JSON; a
\* 4xx or 5xx response raises the HTTP error even when its body is empty.
C5_EmptyMappingOnBlankResponse ==
    (Answered /\ call[1].op \in PassThroughOps) =>
        IF IsError(LastResponse.status_code)
        THEN LastResult.kind = "raise"
        ELSE LastResult = IF LastResponse.status_code = 204 \/ LastResponse.text = ""
                          THEN Returned(EmptyDict)
                          ELSE JsonLoads(LastResponse.text)

C5_Witness ==
    /\ Called("_make_request")
    /\ call[1].args.method = "PUT"
    /\ Answered
    /\ LastResponse.status_code = 204
    /\ LastResponse.text # ""
    /\ LastResult = Returned(EmptyDict)

\* C6: an invocation hands exactly one request to the transport, whether it
\* succeeds or fails; a transport failure or an HTTP error is raised to the
\* caller as it is.
C6_OneRequestPerInvocation ==
    call # None =>
        /\ Len(sent) = 1
        /\ transport[1].exc # None => LastResult = Raised(transport[1].exc[1])
        /\ (Answered /\ IsError(LastResponse.status_code))
           => LastResult = HttpErrorOf(LastResponse)

C6_Witness ==
    /\ Called("get_locks")
    /\ Answered
    /\ LastResponse.status_code = 500
    /\ LastResult.kind = "raise"
    /\ Len(sent) = 1

\* the JSON body plan and apply are to send for the arguments args
ExpectedBody(args) ==
    [k \in {"Repository", "Ref", "Type", "Paths"}
           \cup (IF args.pr_number # None THEN {"PR"} ELSE {}) |->
        CASE k = "Repository" -> args.repository
          [] k = "Ref" -> args.ref
          [] k = "Type" -> args.vcs_type
          [] k = "Paths" -> args.paths
          [] k = "PR" -> args.pr_number[1]]

\* C7: plan and apply send a JSON body with the keys Repository, Ref, Type and
\* Paths holding the caller's values, and with the key PR exactly when
\* pr_number is not None (0 included); for equal arguments the two send the
\* same body, plan to /api/plan and apply to /api/apply.
C7_PlanApplyBody ==
    /\ Called("plan") =>
        /\ sent[1].json = Some(ExpectedBody(call[1].args))
        /\ sent[1].json =
             Some(ApplyPayload(call[1].args.repository, call[1].args.ref,
                               call[1].args.vcs_type, call[1].args.paths,
                               call[1].args.pr_number))
        /\ sent[1].url = service[1].base_url \o <<"/", "api", "/", "plan">>
    /\ Called("apply") =>
        /\ sent[1].json = Some(ExpectedBody(call[1].args))
        /\ sent[1].json =
             Some(PlanPayload(call[1].args.repository, call[1].args.ref,
                              call[1].args.vcs_type, call[1].args.paths,
                              call[1].args.pr_number))
        /\ sent[1].url = service[1].base_url \o <<"/", "api", "/", "apply">>

C7_Witness ==
    /\ Called("plan")
    /\ call[1].args.pr_number = Some(0)
    /\ "PR" \in DOMAIN sent[1].json[1]
    /\ sent[1].json[1]["PR"] = 0

\* the query parameters an operation is to send: the required ones, and every
\* optional one the caller gave a value for
ExpectedParams(required, optional) ==
    [k \in DOMAIN required \cup {o \in DOMAIN optional : optional[o] # None} |->
        IF k \in DOMAIN required THEN required[k] ELSE optional[k][1]]

\* C8: the request get_project, get_project_status, get_locks, delete_lock and
\* get_events send to the server carries every required parameter, and an
\* optional parameter exactly when the caller gave a value for it (anything
\* but None).
C8_OptionalParamsSentWhenSupplied ==
    Answered =>
    /\ (Called("get_project") \/ Called("get_project_status")) =>
        sent[1].params =
            Some(ExpectedParams([repo |-> call[1].args.repo],
                                [project |-> call[1].args.project,
                                 branch |-> call[1].args.branch]))
    /\ Called("get_locks") =>
        sent[1].params = Some(ExpectedParams(EmptyDict, [repo |-> call[1].args.repo]))
    /\ Called("delete_lock") =>
        sent[1].params =
            Some(ExpectedParams([id |-> call[1].args.lock_id],
                                [repo |-> call[1].args.repo,
                                 project |-> call[1].args.project]))
    /\ Called("get_events") =>
        sent[1].params = Some(ExpectedParams(EmptyDict, [limit |-> call[1].args.limit]))

\* the arrays of the response body ObjectText, as the server wrote them
ArrayInObjectText(field) ==
    CASE field = "projects" -> <<"p2", "p1">>
      [] field = "locks" -> <<[id |-> "l1", repo |-> "o/r"], [id |-> "l2", repo |-> "o/q"]>>
      [] field = "events" -> <<"e2", "e1", "e2">>

FieldOf(op) ==
    CASE op = "get_projects" -> "projects"
      [] op = "get_locks" -> "locks"
      [] op = "get_events" -> "events"

\* C9: get_projects, get_locks and get_events return the array under the
\* projects / locks / events field of the response as it is, in its order and
\* unfiltered whatever the repo asked for, and the empty list when the
\* response has no such field or is empty.
C9_ListsReturnedAsReceived ==
    (/\ call # None
     /\ call[1].op \in {"get_projects", "get_locks", "get_events"}
     /\ Answered
     /\ ~IsError(LastResponse.status_code)
     /\ LastResponse.text # InvalidText) =>
        LastResult =
            Returned(IF LastResponse.text = ObjectText /\ LastResponse.status_code # 204
                     THEN ArrayInObjectText(FieldOf(call[1].op))
                     ELSE <<>>)

C9_Witness ==
    /\ Called("get_locks")
    /\ call[1].args.repo = Some("o/r")
    /\ sent[1].params = Some([repo |-> "o/r"])
    /\ LastResult.kind = "return"
    /\ Len(LastResult.value) = 2
    /\ LastResult.value[2].repo = "o/q"

\* the method and path of each public operation
MethodOf(op) == IF op = "delete_lock" THEN "DELETE"
                ELSE IF op \in {"plan", "apply"} THEN "POST" ELSE "GET"
PathOf(op) ==
    CASE op = "get_projects" -> <<"/", "api", "/", "projects">>
      [] op = "get_project" -> <<"/", "api", "/", "project">>
      [] op = "get_project_status" -> <<"/", "api", "/", "project", "/", "status">>
      [] op = "get_locks" -> <<"/", "api", "/", "locks">>
      [] op = "delete_lock" -> <<"/", "api", "/", "locks">>
      [] op = "get_events" -> <<"/", "api", "/", "events">>
      [] op = "get_version" -> <<"/", "api", "/", "version">>
      [] op = "get_health" -> <<"/", "api", "/", "health">>
      [] op = "plan" -> <<"/", "api", "/", "plan">>
      [] op = "apply" -> <<"/", "api", "/", "apply">>

PublicOps ==
    {"get_projects", "get_project", "get_project_status", "get_locks", "delete_lock",
     "get_events", "get_version", "get_health", "plan", "apply"}

\* C10: each of the ten public operations is one call of _make_request with
\* its method and path, and the URL sent is the stored base_url followed by
\* that path.
C10_OperationTable ==
    (call # None /\ call[1].op \in PublicOps) =>
        /\ Len(sent) = 1
        /\ sent[1].method = MethodOf(call[1].op)
        /\ sent[1].url = service[1].base_url \o PathOf(call[1].op)

C10_Witness ==
    /\ Called("get_project_status")
    /\ sent[1].method = "GET"
    /\ sent[1].url = <<"h", "/", "api", "/", "project", "/", "status">>

\* C11: the configuration is immutable after construction: no invocation,
\* successful or failing, changes base_url, the headers, the basic credential,
\* verify_ssl or timeout, and every request is sent with exactly those values.
C11_ConfigurationImmutable ==
    [][/\ service' = service
       /\ \A i \in 1..Len(sent') :
            /\ SubSeq(sent'[i].url, 1, Len(service[1].base_url)) = service[1].base_url
            /\ sent'[i].headers = service[1].headers
            /\ sent'[i].auth = service[1].auth
            /\ sent'[i].verify = service[1].verify_ssl
            /\ sent'[i].timeout = service[1].timeout]_<<service, call, sent, transport, result>>

C11_Witness ==
    /\ call # None
    /\ LastResult.kind = "raise"
    /\ service[1].verify_ssl = FALSE
    /\ service[1].timeout = 60
    /\ sent[1].verify = FALSE
    /\ sent[1].timeout = 60

\* C12: the stored base_url never ends with a slash: it is the configured
\* base_url without its trailing slashes, and the configured base_url itself
\* when that has no trailing slash.
C12_BaseUrlStripped ==
    Constructed =>
        LET given == init[1].base_url
            stored == service[1].base_url
        IN /\ stored = <<>> \/ stored[Len(stored)] # "/"
           /\ Len(stored) <= Len(given)
           /\ SubSeq(given, 1, Len(stored)) = stored
           /\ \A i \in (Len(stored) + 1)..Len(given) : given[i] = "/"
           /\ given[Len(given)] # "/" => stored = given

C12_Witness ==
    /\ Constructed
    /\ init[1].base_url = <<"h", "/">>
    /\ service[1].base_url = <<"h">>

-----------------------------------------------------------------------------
(* The remote repository behind the SDK (PyGithub)                          *)
(*                                                                         *)
(* store.refs maps a branch name to Optional[sha]; store.objects is the    *)
(* object database, the sha of an object being its index.  Objects are     *)
(* content-addressed: creating an object equal to a stored one yields the  *)
(* stored sha.  A tree keeps one entry per path, ordered by path.          *)
(***************************************************************************)

Branches == {"main", "dev"}
PathOrder == <<"a.py", "b.py", "o.py">>
Paths == {"a.py", "b.py"}
Contents == {"new1", "new2"}
Messages == {"msg"}
Callers == {"c1", "c2"}

GithubException(status) == [type |-> "GithubException", status |-> status]
ValueError(message) == [type |-> "ValueError", message |-> message]

Blob(content) == [type |-> "blob", content |-> content]
Tree(entries) == [type |-> "tree", tree |-> entries]
Commit(message, tree_sha, parents) ==
    [type |-> "commit", message |-> message, tree |-> tree_sha, parents |-> parents]

\* InputGitTreeElement(path, mode, type, sha), and an element of tree.tree
TreeElement(path, mode, type, sha) ==
    [path |-> path, mode |-> mode, type |-> type, sha |-> sha]

\* the repository the callers start from: main at a commit with two files
InitialObjects ==
    <<Blob("old-a"), Blob("old-o"),
      Tree(<<TreeElement("a.py", "100755", "blob", 1),
             TreeElement("o.py", "100644", "blob", 2)>>),
      Commit("initial", 3, <<>>)>>

InitialStore ==
    [refs |-> [b \in Branches |-> IF b = "main" THEN Some(4) ELSE None],
     objects |-> InitialObjects,
     comments |-> <<>>]

\* the sha under which obj is, or will be, stored
ShaOf(objects, obj) ==
    IF \E i \in 1..Len(objects) : objects[i] = obj
    THEN CHOOSE i \in 1..Len(objects) : objects[i] = obj
    ELSE Len(objects) + 1

\* the store with obj in it
WithObject(st, obj) ==
    IF ShaOf(st.objects, obj) <= Len(st.objects) THEN st
    ELSE [st EXCEPT !.objects = Append(@, obj)]

\* the last element of a list of elements that has the path, if any
RECURSIVE LastWithPath(_, _)
LastWithPath(elements, path) ==
    IF elements = <<>> THEN None
    ELSE IF elements[Len(elements)].path = path THEN Some(elements[Len(elements)])
    ELSE LastWithPath(SubSeq(elements, 1, Len(elements) - 1), path)

\* the entries of the tree that elements laid over the entries of base make
RECURSIVE TreeEntries(_, _, _)
TreeEntries(base, elements, i) ==
    IF i > Len(PathOrder) THEN <<>>
    ELSE LET e == LastWithPath(base \o elements, PathOrder[i])
         IN e \o TreeEntries(base, elements, i + 1)

-----------------------------------------------------------------------------
(* The calls of the SDK: what each returns, and the store it leaves *)

\* repository.get_git_ref(f"heads/{branch}"): the GitRef, or None when the
\* reference does not exist (the SDK raises GithubException 404)
GetGitRef(st, branch) ==
    IF st.refs[branch] = None THEN None
    ELSE Some([ref |-> <<"refs", "heads", branch>>, branch |-> branch,
               sha |-> st.refs[branch][1]])

\* repository.get_git_commit(sha)
GetGitCommit(st, sha) == [sha |-> sha, tree_sha |-> st.objects[sha].tree]

\* repository.get_git_tree(sha, recursive=True)
GetGitTree(st, sha) == [sha |-> sha, tree |-> st.objects[sha].tree]

\* repository.create_git_blob(content, "utf-8")
CreateGitBlob(st, content) ==
    [store |-> WithObject(st, Blob(content)),
     sha |-> ShaOf(st.objects, Blob(content))]

\* repository.create_git_tree(tree_elements, base_tree=tree)
CreateGitTree(st, tree_elements, base_tree) ==
    LET obj == Tree(TreeEntries(base_tree.tree, tree_elements, 1))
    IN [store |-> WithObject(st, obj), sha |-> ShaOf(st.objects, obj)]

\* repository.create_git_commit(message, new_tree, [commit])
CreateGitCommit(st, message, tree_sha, parents) ==
    LET obj == Commit(message, tree_sha, parents)
    IN [store |-> WithObject(st, obj), sha |-> ShaOf(st.objects, obj)]

\* ref.edit(sha), the reference update of a GitRef read earlier
\* commit a is commit b or one of its ancestors
RECURSIVE IsAncestor(_, _, _)
IsAncestor(st, a, b) ==
    \/ a = b
    \/ \E i \in 1..Len(st.objects[b].parents) : IsAncestor(st, a, st.objects[b].parents[i])

\* the remote moving a reference to whatever sha is sent (force = true)
FastForward_Forced(st, branch, sha) == st.refs[branch] # None

\* ref.edit(sha) sends no force: the remote moves the reference only to a
\* commit that descends from the one the reference points at
FastForward(st, branch, sha) ==
    st.refs[branch] # None /\ IsAncestor(st, st.refs[branch][1], sha)

\* the status of the GithubException for an update or a creation the remote refuses
Unprocessable == 422

RefEdit(st, ref, sha) == [st EXCEPT !.refs[ref.branch] = Some(sha)]

\* repository.create_git_ref(f"refs/heads/{branch}", sha)
CreateGitRef(st, branch, sha) == [st EXCEPT !.refs[branch] = Some(sha)]

-----------------------------------------------------------------------------
(* GitHubService.__init__ *)

TokenRequiredError == "token is required"

\* Github(...): the client is the keyword arguments it was built with
GithubClient(kwargs) == kwargs

\* a client always built with base_url, whatever its value
GitHubClientOf_AlwaysBaseUrl(token, base_url, verify, timeout) ==
    GithubClient([k \in {"base_url", "login_or_token", "verify", "timeout"} |->
                    CASE k = "base_url" -> base_url
                      [] k = "login_or_token" -> token[1]
                      [] k = "verify" -> verify
                      [] k = "timeout" -> timeout])

\* self.github: built with base_url only when base_url is truthy
GitHubClientOf(token, base_url, verify, timeout) ==
    IF TruthyStr(base_url)
    THEN GithubClient([k \in {"base_url", "login_or_token", "verify", "timeout"} |->
                        CASE k = "base_url" -> base_url
                          [] k = "login_or_token" -> token[1]
                          [] k = "verify" -> verify
                          [] k = "timeout" -> timeout])
    ELSE GithubClient([k \in {"login_or_token", "verify", "timeout"} |->
                        CASE k = "login_or_token" -> token[1]
                          [] k = "verify" -> verify
                          [] k = "timeout" -> timeout])

\* the outcome of GitHubService(token, base_url, verify, timeout)
GitHubInit(token, base_url, verify, timeout) ==
    IF ~TruthyStr(token)
    THEN [raised |-> Some(ValueError(TokenRequiredError)), self |-> None]
    ELSE [raised |-> None,
          self |-> Some([token |-> token[1], timeout |-> timeout, verify |-> verify,
                         github |-> GitHubClientOf(token, base_url, verify, timeout)])]

GitHubTokens == {None, Some(""), Some("tok"), Some("tok2")}
GitHubBaseUrls == {None, Some(""), Some("https://ghe.example.com/api/v3")}

\* a constructor call with its outcome
GitHubService(token, base_url, verify, timeout) ==
    LET out == GitHubInit(token, base_url, verify, timeout)
    IN [token |-> token, base_url |-> base_url, verify |-> verify,
        timeout |-> timeout, raised |-> out.raised, self |-> out.self]

\* a constructor call
ConstructGitHub(token, base_url, verify, timeout) ==
    /\ github = None
    /\ github' = Some(GitHubService(token, base_url, verify, timeout))
    /\ UNCHANGED <<store, reflog, procs>>
    /\ UNCHANGED atlantisVars

-----------------------------------------------------------------------------
(* The callers of GitHubService *)

\* a caller that has invoked nothing
Idle ==
    [op |-> "none", args |-> None, pc |-> "idle", calls |-> <<>>, result |-> None,
     ref |-> None, commit |-> None, tree |-> None, blobs |-> <<>>,
     tree_elements |-> <<>>, new_tree |-> None, new_commit |-> None,
     base_ref |-> None]

\* a remote call as the caller's log keeps it
\* error is None when the call returned, the exception it raised otherwise
RemoteCall(name, args, error) ==
    [name |-> name, args |-> args, ok |-> error = None, error |-> error]

\* the statuses of a GithubException the remote raises on a call it could serve
ServerErrors == {500}

Merge(upd, rec) == [f \in DOMAIN rec |-> IF f \in DOMAIN upd THEN upd[f] ELSE rec[f]]

At(c, op, pc) == procs # None /\ procs[c].op = op /\ procs[c].pc = pc

\* the caller invokes op
Begin(c, op, args) ==
    /\ procs # None
    /\ github # None /\ github[1].self # None
    /\ procs[c].pc = "idle"
    /\ procs' = [procs EXCEPT ![c] = Merge([op |-> op, args |-> args, pc |-> "get_repo"], @)]
    /\ UNCHANGED <<store, reflog>>
    /\ UNCHANGED atlantisVars
    /\ UNCHANGED github

\* the remote call name(args) of caller c returned (error = None) or raised an
\* error the operation handles: the caller goes on to next with the locals upd,
\* and the remote is left as st
Step(c, name, args, error, next, upd, st) ==
    /\ procs' = [procs EXCEPT ![c] =
                    Merge(upd, [@ EXCEPT !.pc = next,
                                         !.calls = Append(@, RemoteCall(name, args, error))])]
    /\ store' = st
    /\ UNCHANGED atlantisVars
    /\ UNCHANGED github

\* the remote call name(args) of caller c succeeded
Proceed(c, name, args, next, upd, st) == Step(c, name, args, None, next, upd, st)

\* the operation of caller c returns value after its last remote call name(args)
Return(c, name, args, value, st) ==
    Proceed(c, name, args, "done", [result |-> Some(Returned(value))], st)

\* the failure swallowed: the operation returns None
Raise_Swallowed(c, name, args, error, exc) ==
    /\ procs' = [procs EXCEPT ![c] =
                    [@ EXCEPT !.pc = "done",
                              !.calls = Append(@, RemoteCall(name, args, Some(error))),
                              !.result = Some(Returned(None))]]
    /\ UNCHANGED <<store, reflog>>
    /\ UNCHANGED atlantisVars
    /\ UNCHANGED github

\* the remote call name(args) of caller c raised error, and the operation
\* raises exc: the exception unwinds the operation, no later statement runs
Raise(c, name, args, error, exc) ==
    /\ procs' = [procs EXCEPT ![c] =
                    [@ EXCEPT !.pc = "done",
                              !.calls = Append(@, RemoteCall(name, args, Some(error))),
                              !.result = Some(Raised(exc))]]
    /\ UNCHANGED <<store, reflog>>
    /\ UNCHANGED atlantisVars
    /\ UNCHANGED github

\* the remote call name(args) of caller c raised error outside any try block
Propagate(c, name, args, error) == Raise(c, name, args, error, error)

\* self.get_repository(owner, repo), the first call of every operation
GetRepository(c, op) ==
    /\ At(c, op, "get_repo")
    /\ \/ Proceed(c, "get_repo", <<"o/r">>, "get_git_ref", EmptyDict, store)
       \/ \E status \in ServerErrors :
            Propagate(c, "get_repo", <<"o/r">>, GithubException(status))
    /\ UNCHANGED reflog

-----------------------------------------------------------------------------
(* GitHubService.push_to_pull_request *)

\* tree_elements without the filter on element.path: every element is kept
PushToPullRequestElements_KeepAll(tree, file_path, blob_sha) ==
    tree \o <<TreeElement(file_path, "100644", "blob", blob_sha)>>

\* tree_elements: the elements of the tree read that are kept, then the new one
PushToPullRequestElements(tree, file_path, blob_sha) ==
    LET Kept(element) == element.path # file_path
        Input(element) ==
            TreeElement(element.path, element.mode, element.type, element.sha)
        RECURSIVE Inputs(_)
        Inputs(elements) ==
            IF elements = <<>> THEN <<>>
            ELSE <<Input(Head(elements))>> \o Inputs(Tail(elements))
    IN Inputs(SelectSeq(tree, Kept)) \o <<TreeElement(file_path, "100644", "blob", blob_sha)>>

\* the commit read given twice as parent
PushToPullRequestParents_Twice(commit) == <<commit.sha, commit.sha>>

\* the parents of the new commit: [commit]
PushToPullRequestParents(commit) == <<commit.sha>>

\* the dictionary returned
PushToPullRequestResult(new_commit_sha, branch, file_path, message) ==
    [commit_sha |-> new_commit_sha, branch |-> branch, file_path |-> file_path,
     message |-> message]

PushGetGitRef(c) ==
    /\ At(c, "push_to_pull_request", "get_git_ref")
    /\ LET branch == procs[c].args.branch
           ref == GetGitRef(store, branch)
       IN \/ /\ ref # None
             /\ Proceed(c, "get_git_ref", <<branch>>, "get_git_commit", [ref |-> ref], store)
          \/ /\ ref = None
             /\ Propagate(c, "get_git_ref", <<branch>>, GithubException(404))
          \/ \E status \in ServerErrors :
                Propagate(c, "get_git_ref", <<branch>>, GithubException(status))
    /\ UNCHANGED reflog

PushGetGitCommit(c) ==
    /\ At(c, "push_to_pull_request", "get_git_commit")
    /\ LET sha == procs[c].ref[1].sha
       IN \/ Proceed(c, "get_git_commit", <<sha>>, "get_git_tree",
                     [commit |-> Some(GetGitCommit(store, sha))], store)
          \/ \E status \in ServerErrors :
                Propagate(c, "get_git_commit", <<sha>>, GithubException(status))
    /\ UNCHANGED reflog

PushGetGitTree(c) ==
    /\ At(c, "push_to_pull_request", "get_git_tree")
    /\ LET sha == procs[c].commit[1].tree_sha
       IN \/ Proceed(c, "get_git_tree", <<sha>>, "create_git_blob",
                     [tree |-> Some(GetGitTree(store, sha))], store)
          \/ \E status \in ServerErrors :
                Propagate(c, "get_git_tree", <<sha>>, GithubException(status))
    /\ UNCHANGED reflog

PushCreateGitBlob(c) ==
    /\ At(c, "push_to_pull_request", "create_git_blob")
    /\ LET content == procs[c].args.content
           blob == CreateGitBlob(store, content)
       IN \/ Proceed(c, "create_git_blob", <<content>>, "create_git_tree",
                     [blobs |-> <<blob.sha>>,
                      tree_elements |->
                          PushToPullRequestElements(procs[c].tree[1].tree,
                                                    procs[c].args.file_path, blob.sha)],
                     blob.store)
          \/ \E status \in ServerErrors :
                Propagate(c, "create_git_blob", <<content>>, GithubException(status))
    /\ UNCHANGED reflog

PushCreateGitTree(c) ==
    /\ At(c, "push_to_pull_request", "create_git_tree")
    /\ LET elements == procs[c].tree_elements
           base == procs[c].tree[1]
           new_tree == CreateGitTree(store, elements, base)
       IN \/ Proceed(c, "create_git_tree", <<elements, base.sha>>, "create_git_commit",
                     [new_tree |-> Some(new_tree.sha)], new_tree.store)
          \/ \E status \in ServerErrors :
                Propagate(c, "create_git_tree", <<elements, base.sha>>, GithubException(status))
    /\ UNCHANGED reflog

PushCreateGitCommit(c) ==
    /\ At(c, "push_to_pull_request", "create_git_commit")
    /\ LET message == procs[c].args.message
           parents == PushToPullRequestParents(procs[c].commit[1])
           new_commit == CreateGitCommit(store, message, procs[c].new_tree[1], parents)
           args == <<message, procs[c].new_tree[1], parents>>
       IN \/ Proceed(c, "create_git_commit", args, "ref_edit",
                     [new_commit |-> Some(new_commit.sha)], new_commit.store)
          \/ \E status \in ServerErrors :
                Propagate(c, "create_git_commit", args, GithubException(status))
    /\ UNCHANGED reflog

PushRefEdit(c) ==
    /\ At(c, "push_to_pull_request", "ref_edit")
    /\ LET ref == procs[c].ref[1]
           sha == procs[c].new_commit[1]
       IN \/ /\ FastForward(store, ref.branch, sha)
             /\ Return(c, "ref_edit", <<ref.branch, sha>>,
                       PushToPullRequestResult(sha, procs[c].args.branch,
                                               procs[c].args.file_path,
                                               procs[c].args.message),
                       RefEdit(store, ref, sha))
             /\ reflog' = Append(reflog, [by |-> c, branch |-> ref.branch, sha |-> sha])
          \/ /\ ~FastForward(store, ref.branch, sha)
             /\ Propagate(c, "ref_edit", <<ref.branch, sha>>, GithubException(Unprocessable))
          \/ \E status \in ServerErrors :
                Propagate(c, "ref_edit", <<ref.branch, sha>>, GithubException(status))

BeginPushToPullRequest(c) ==
    \E branch \in Branches, file_path \in Paths, content \in Contents,
       message \in Messages :
        Begin(c, "push_to_pull_request",
              [branch |-> branch, file_path |-> file_path, content |-> content,
               message |-> message])

PushToPullRequest(c) ==
    \/ BeginPushToPullRequest(c)
    \/ GetRepository(c, "push_to_pull_request")
    \/ PushGetGitRef(c)
    \/ PushGetGitCommit(c)
    \/ PushGetGitTree(c)
    \/ PushCreateGitBlob(c)
    \/ PushCreateGitTree(c)
    \/ PushCreateGitCommit(c)
    \/ PushRefEdit(c)

-----------------------------------------------------------------------------
(* GitHubService.push_files_to_branch *)

\* the largest number of entries of the files dictionary
MaxFiles == 2

\* list(files.keys()): a dictionary is the sequence of its items, in insertion order
Keys(files) == [i \in 1..Len(files) |-> files[i].path]

\* the files dictionaries: items with distinct paths
FileDicts ==
    {files \in UNION {[1..n -> [path : Paths, content : Contents]] : n \in 0..MaxFiles} :
        \A i, j \in 1..Len(files) : files[i].path = files[j].path => i = j}

\* the elements kept without the test on file_paths: every element
PushFilesKept_KeepAll(tree, file_paths) == tree

\* the elements of the tree read that are not being updated
PushFilesKept(tree, file_paths) ==
    LET Kept(element) == element.path \notin file_paths
    IN SelectSeq(tree, Kept)

\* the dictionary returned
PushFilesResult(new_commit_sha, branch, files, message) ==
    [commit_sha |-> new_commit_sha, branch |-> branch, files |-> Keys(files),
     message |-> message]

\* the exception of the branch lookup raised as it came
BranchNotFound_Unwrapped(branch, e) == e

\* except Exception as e: raise ValueError(f"Branch '{branch}' not found: {e}")
BranchNotFound(branch, e) == ValueError(<<"Branch", branch, "not found", e>>)

\* branch_ref = repository.get_git_ref(...), every exception turned into a ValueError
FilesGetGitRef(c) ==
    /\ At(c, "push_files_to_branch", "get_git_ref")
    /\ LET branch == procs[c].args.branch
           ref == GetGitRef(store, branch)
           NotFound(e) == BranchNotFound(branch, e)
       IN \/ /\ ref # None
             /\ Proceed(c, "get_git_ref", <<branch>>, "get_git_commit", [ref |-> ref], store)
          \/ /\ ref = None
             /\ Raise(c, "get_git_ref", <<branch>>, GithubException(404), NotFound(GithubException(404)))
          \/ \E status \in ServerErrors :
                Raise(c, "get_git_ref", <<branch>>, GithubException(status), NotFound(GithubException(status)))
    /\ UNCHANGED reflog

FilesGetGitCommit(c) ==
    /\ At(c, "push_files_to_branch", "get_git_commit")
    /\ LET sha == procs[c].ref[1].sha
       IN \/ Proceed(c, "get_git_commit", <<sha>>, "get_git_tree",
                     [commit |-> Some(GetGitCommit(store, sha))], store)
          \/ \E status \in ServerErrors :
                Propagate(c, "get_git_commit", <<sha>>, GithubException(status))
    /\ UNCHANGED reflog

\* the tree is read, and the elements not being updated are kept
FilesGetGitTree(c) ==
    /\ At(c, "push_files_to_branch", "get_git_tree")
    /\ LET sha == procs[c].commit[1].tree_sha
           tree == GetGitTree(store, sha)
           files == procs[c].args.files
           file_paths == {files[i].path : i \in 1..Len(files)}
       IN \/ Proceed(c, "get_git_tree", <<sha>>,
                     IF files = <<>> THEN "create_git_tree" ELSE "create_git_blob",
                     [tree |-> Some(tree),
                      tree_elements |-> PushFilesKept(tree.tree, file_paths)], store)
          \/ \E status \in ServerErrors :
                Propagate(c, "get_git_tree", <<sha>>, GithubException(status))
    /\ UNCHANGED reflog

\* one turn of the loop over files.items()
FilesCreateGitBlob(c) ==
    /\ At(c, "push_files_to_branch", "create_git_blob")
    /\ LET files == procs[c].args.files
           item == files[Len(procs[c].blobs) + 1]
           blob == CreateGitBlob(store, item.content)
       IN \/ Proceed(c, "create_git_blob", <<item.content>>,
                     IF Len(procs[c].blobs) + 1 = Len(files)
                     THEN "create_git_tree" ELSE "create_git_blob",
                     [blobs |-> Append(procs[c].blobs, blob.sha),
                      tree_elements |->
                          Append(procs[c].tree_elements,
                                 TreeElement(item.path, "100644", "blob", blob.sha))],
                     blob.store)
          \/ \E status \in ServerErrors :
                Propagate(c, "create_git_blob", <<item.content>>, GithubException(status))
    /\ UNCHANGED reflog

FilesCreateGitTree(c) ==
    /\ At(c, "push_files_to_branch", "create_git_tree")
    /\ LET elements == procs[c].tree_elements
           base == procs[c].tree[1]
           new_tree == CreateGitTree(store, elements, base)
       IN \/ Proceed(c, "create_git_tree", <<elements, base.sha>>, "create_git_commit",
                     [new_tree |-> Some(new_tree.sha)], new_tree.store)
          \/ \E status \in ServerErrors :
                Propagate(c, "create_git_tree", <<elements, base.sha>>, GithubException(status))
    /\ UNCHANGED reflog

FilesCreateGitCommit(c) ==
    /\ At(c, "push_files_to_branch", "create_git_commit")
    /\ LET message == procs[c].args.message
           parents == <<procs[c].commit[1].sha>>
           new_commit == CreateGitCommit(store, message, procs[c].new_tree[1], parents)
           args == <<message, procs[c].new_tree[1], parents>>
       IN \/ Proceed(c, "create_git_commit", args, "ref_edit",
                     [new_commit |-> Some(new_commit.sha)], new_commit.store)
          \/ \E status \in ServerErrors :
                Propagate(c, "create_git_commit", args, GithubException(status))
    /\ UNCHANGED reflog

FilesRefEdit(c) ==
    /\ At(c, "push_files_to_branch", "ref_edit")
    /\ LET ref == procs[c].ref[1]
           sha == procs[c].new_commit[1]
       IN \/ /\ FastForward(store, ref.branch, sha)
             /\ Return(c, "ref_edit", <<ref.branch, sha>>,
                       PushFilesResult(sha, procs[c].args.branch, procs[c].args.files,
                                       procs[c].args.message),
                       RefEdit(store, ref, sha))
             /\ reflog' = Append(reflog, [by |-> c, branch |-> ref.branch, sha |-> sha])
          \/ /\ ~FastForward(store, ref.branch, sha)
             /\ Propagate(c, "ref_edit", <<ref.branch, sha>>, GithubException(Unprocessable))
          \/ \E status \in ServerErrors :
                Propagate(c, "ref_edit", <<ref.branch, sha>>, GithubException(status))

BeginPushFilesToBranch(c) ==
    \E branch \in Branches, files \in FileDicts, message \in Messages :
        Begin(c, "push_files_to_branch",
              [branch |-> branch, files |-> files, message |-> message])

PushFilesToBranch(c) ==
    \/ BeginPushFilesToBranch(c)
    \/ GetRepository(c, "push_files_to_branch")
    \/ FilesGetGitRef(c)
    \/ FilesGetGitCommit(c)
    \/ FilesGetGitTree(c)
    \/ FilesCreateGitBlob(c)
    \/ FilesCreateGitTree(c)
    \/ FilesCreateGitCommit(c)
    \/ FilesRefEdit(c)

-----------------------------------------------------------------------------
(* GitHubService.create_branch *)

\* the target reference resolved and nothing is raised
TargetFound_Ignored(branch) == None

\* the target reference resolved: raise ValueError(f"Branch '{branch}' already exists")
TargetFound(branch) == Some(ValueError(<<"Branch", branch, "already exists">>))

\* every GithubException of the target lookup read as "does not exist"
TargetMissing_AnyStatus(e) == None

\* except GithubException as e: the exception goes on unless e.status is 404
TargetMissing(e) == IF e.status # 404 THEN Some(e) ELSE None

\* the exception of the base lookup raised as it came
BaseNotFound_Unwrapped(base_branch, e) == e

\* except Exception as e: raise ValueError(f"Base branch '{base_branch}' not found: {e}")
BaseNotFound(base_branch, e) == ValueError(<<"Base branch", base_branch, "not found", e>>)

\* the dictionary returned with the two names exchanged
CreateBranchResult_Swapped(branch, base_branch, sha) ==
    [branch |-> base_branch, base_branch |-> branch, commit_sha |-> sha]

\* the dictionary returned
CreateBranchResult(branch, base_branch, sha) ==
    [branch |-> branch, base_branch |-> base_branch, commit_sha |-> sha]

\* the outcome of the check that the branch does not exist yet
TargetChecked(c, branch, error, exc) ==
    IF exc = None
    THEN Step(c, "get_git_ref", <<branch>>, error, "get_base_ref", EmptyDict, store)
    ELSE Step(c, "get_git_ref", <<branch>>, error, "done",
              [result |-> Some(Raised(exc[1]))], store)

\* try: repository.get_git_ref(f"heads/{branch}") ...
BranchCheckTarget(c) ==
    /\ At(c, "create_branch", "get_git_ref")
    /\ LET branch == procs[c].args.branch
           ref == GetGitRef(store, branch)
       IN \/ /\ ref # None
             /\ TargetChecked(c, branch, None, TargetFound(branch))
          \/ /\ ref = None
             /\ TargetChecked(c, branch, Some(GithubException(404)),
                              TargetMissing(GithubException(404)))
          \/ \E status \in ServerErrors :
                TargetChecked(c, branch, Some(GithubException(status)),
                              TargetMissing(GithubException(status)))
    /\ UNCHANGED reflog

\* try: base_ref = repository.get_git_ref(f"heads/{base_branch}") ...
BranchGetBaseRef(c) ==
    /\ At(c, "create_branch", "get_base_ref")
    /\ LET base_branch == procs[c].args.base_branch
           ref == GetGitRef(store, base_branch)
       IN \/ /\ ref # None
             /\ Proceed(c, "get_git_ref", <<base_branch>>, "create_git_ref",
                        [base_ref |-> ref], store)
          \/ /\ ref = None
             /\ Raise(c, "get_git_ref", <<base_branch>>, GithubException(404),
                      BaseNotFound(base_branch, GithubException(404)))
          \/ \E status \in ServerErrors :
                Raise(c, "get_git_ref", <<base_branch>>, GithubException(status),
                      BaseNotFound(base_branch, GithubException(status)))
    /\ UNCHANGED reflog

\* a remote that creates the reference over an existing one
RefAbsent_Overwrite(st, branch) == TRUE

\* the remote creates a reference only under a name that has none
RefAbsent(st, branch) == st.refs[branch] = None

\* repository.create_git_ref(f"refs/heads/{branch}", base_ref.object.sha) and return
BranchCreateGitRef(c) ==
    /\ At(c, "create_branch", "create_git_ref")
    /\ LET branch == procs[c].args.branch
           sha == procs[c].base_ref[1].sha
           args == <<<<"refs", "heads", branch>>, sha>>
       IN \/ /\ RefAbsent(store, branch)
             /\ Return(c, "create_git_ref", args,
                       CreateBranchResult(branch, procs[c].args.base_branch, sha),
                       CreateGitRef(store, branch, sha))
             /\ reflog' = Append(reflog, [by |-> c, branch |-> branch, sha |-> sha])
          \/ /\ ~RefAbsent(store, branch)
             /\ Propagate(c, "create_git_ref", args, GithubException(Unprocessable))
          \/ \E status \in ServerErrors :
                Propagate(c, "create_git_ref", args, GithubException(status))

BeginCreateBranch(c) ==
    \E branch \in Branches, base_branch \in Branches :
        Begin(c, "create_branch", [branch |-> branch, base_branch |-> base_branch])

CreateBranch(c) ==
    \/ BeginCreateBranch(c)
    \/ GetRepository(c, "create_branch")
    \/ BranchCheckTarget(c)
    \/ BranchGetBaseRef(c)
    \/ BranchCreateGitRef(c)

-----------------------------------------------------------------------------
(* GitHubService.get_repository, and the construction of the service *)

\* return self.github.get_repo(f"{owner}/{repo}")
GetRepositoryCall(c) ==
    /\ At(c, "get_repository", "get_repo")
    /\ \/ Return(c, "get_repo", <<"o/r">>, [full_name |-> "o/r"], store)
       \/ \E status \in ServerErrors \cup {404} :
            Propagate(c, "get_repo", <<"o/r">>, GithubException(status))
    /\ UNCHANGED reflog

BeginGetRepository(c) == Begin(c, "get_repository", [owner |-> "o", repo |-> "r"])

GetRepositoryOp(c) ==
    \/ BeginGetRepository(c)
    \/ GetRepositoryCall(c)

InitGitCtor ==
    /\ service = None /\ init = None /\ call = None
    /\ sent = <<>> /\ transport = None /\ result = None
    /\ store = InitialStore
    /\ reflog = <<>>
    /\ procs = [c \in Callers |-> Idle]
    /\ github = None

NextGitCtor ==
    \/ \E token \in GitHubTokens, base_url \in GitHubBaseUrls,
          verify \in BOOLEAN, timeout \in Timeouts :
            ConstructGitHub(token, base_url, verify, timeout)
    \/ \E c \in Callers : GetRepositoryOp(c)

SpecGitInit == InitGitCtor /\ [][NextGitCtor]_vars

-----------------------------------------------------------------------------
(* GitHubService.create_pull_request_comment *)

CommitIds == {None, Some(""), Some("abc123")}
CommentPaths == {None, Some(""), Some("a.py")}
Lines == {None, Some(0), Some(10)}
Sides == {Some("RIGHT")}

\* if commit_id and path and line is not None
IsReviewComment(commit_id, path, line) ==
    TruthyStr(commit_id) /\ TruthyStr(path) /\ line # None

\* the comment the remote creates for pr.create_review_comment(body=..., ...)
ReviewComment(body, commit_id, path, line, side) ==
    [kind |-> "review", body |-> body, commit_id |-> commit_id, path |-> path,
     line |-> line, side |-> side]

\* the comment the remote creates for pr.create_issue_comment(body)
IssueComment(body) == [kind |-> "issue", body |-> body]

CommentGetRepository(c) ==
    /\ At(c, "create_pull_request_comment", "get_repo")
    /\ \/ Proceed(c, "get_repo", <<"o/r">>, "get_pull", EmptyDict, store)
       \/ \E status \in ServerErrors :
            Propagate(c, "get_repo", <<"o/r">>, GithubException(status))
    /\ UNCHANGED reflog

CommentGetPull(c) ==
    /\ At(c, "create_pull_request_comment", "get_pull")
    /\ LET pr_number == procs[c].args.pr_number
       IN \/ Proceed(c, "get_pull", <<pr_number>>, "create_comment", EmptyDict, store)
          \/ \E status \in ServerErrors :
                Propagate(c, "get_pull", <<pr_number>>, GithubException(status))
    /\ UNCHANGED reflog

CommentCreate(c) ==
    /\ At(c, "create_pull_request_comment", "create_comment")
    /\ LET a == procs[c].args
       IN IF IsReviewComment(a.commit_id, a.path, a.line)
          THEN LET comment == ReviewComment(a.body, a.commit_id, a.path, a.line, a.side)
               IN \/ Return(c, "create_review_comment", comment, comment,
                            [store EXCEPT !.comments = Append(@, comment)])
                  \/ \E status \in ServerErrors :
                        Propagate(c, "create_review_comment", comment,
                                  GithubException(status))
          ELSE LET comment == IssueComment(a.body)
               IN \/ Return(c, "create_issue_comment", <<a.body>>, comment,
                            [store EXCEPT !.comments = Append(@, comment)])
                  \/ \E status \in ServerErrors :
                        Propagate(c, "create_issue_comment", <<a.body>>,
                                  GithubException(status))
    /\ UNCHANGED reflog

BeginCreatePullRequestComment(c) ==
    \E commit_id \in CommitIds, path \in CommentPaths, line \in Lines, side \in Sides :
        Begin(c, "create_pull_request_comment",
              [pr_number |-> 1, body |-> "Fix this line", commit_id |-> commit_id,
               path |-> path, line |-> line, side |-> side])

CreatePullRequestComment(c) ==
    \/ BeginCreatePullRequestComment(c)
    \/ CommentGetRepository(c)
    \/ CommentGetPull(c)
    \/ CommentCreate(c)

-----------------------------------------------------------------------------
(* The other operations of GitHubService: the remote calls each makes on the
   repository handle, in order.  What they change on the remote (hooks, pull
   requests, labels, branch protection, comments) is not part of the state. *)

OtherOperations ==
    [create_webhook |-> <<"create_hook">>,
     get_webhooks |-> <<"get_hooks">>,
     delete_webhook |-> <<"get_hook", "delete">>,
     create_pull_request |-> <<"create_pull">>,
     get_pull_request |-> <<"get_pull">>,
     get_pull_requests |-> <<"get_pulls">>,
     update_branch_protection |-> <<"get_branch", "protect">>,
     get_branch_protection |-> <<"get_branch", "get_protection">>,
     create_label |-> <<"create_label">>,
     get_labels |-> <<"get_labels">>,
     add_label_to_pull_request |-> <<"get_pull", "add_to_labels">>,
     remove_label_from_pull_request |-> <<"get_pull", "remove_from_labels">>,
     get_pull_request_labels |-> <<"get_pull", "get_labels">>,
     get_pull_request_comments |-> <<"get_pull", "get_issue_comments">>,
     update_pull_request_comment |-> <<"get_issue_comment", "edit">>,
     delete_pull_request_comment |-> <<"get_issue_comment", "delete">>]

\* the operation resolves the repository without recording the call, as it
\* would with a handle kept from an earlier invocation
OtherGetRepository_Cached(c) ==
    /\ procs # None
    /\ procs[c].op \in DOMAIN OtherOperations
    /\ procs[c].pc = "get_repo"
    /\ procs' = [procs EXCEPT ![c].pc = "call"]
    /\ UNCHANGED <<store, reflog, github>>
    /\ UNCHANGED atlantisVars

\* repository = self.get_repository(owner, repo)
OtherGetRepository(c) ==
    /\ procs # None
    /\ procs[c].op \in DOMAIN OtherOperations
    /\ procs[c].pc = "get_repo"
    /\ \/ Proceed(c, "get_repo", <<"o/r">>, "call", EmptyDict, store)
       \/ \E status \in ServerErrors :
            Propagate(c, "get_repo", <<"o/r">>, GithubException(status))
    /\ UNCHANGED reflog

\* the next call on the repository handle, or on the object the last one returned
OtherCall(c) ==
    /\ procs # None
    /\ procs[c].op \in DOMAIN OtherOperations
    /\ procs[c].pc = "call"
    /\ LET todo == OtherOperations[procs[c].op]
           done == {i \in 1..Len(procs[c].calls) : procs[c].calls[i].name # "get_repo"}
           name == todo[Cardinality(done) + 1]
       IN \/ /\ Cardinality(done) + 1 < Len(todo)
             /\ Proceed(c, name, <<>>, "call", EmptyDict, store)
          \/ /\ Cardinality(done) + 1 = Len(todo)
             /\ Return(c, name, <<>>, name, store)
          \/ \E status \in ServerErrors :
                Propagate(c, name, <<>>, GithubException(status))
    /\ UNCHANGED reflog

BeginOther(c) ==
    \E op \in DOMAIN OtherOperations : Begin(c, op, [owner |-> "o", repo |-> "r"])

OtherOperation(c) ==
    \/ BeginOther(c)
    \/ OtherGetRepository(c)
    \/ OtherCall(c)

InitGit ==
    /\ service = None /\ init = None /\ call = None
    /\ sent = <<>> /\ transport = None /\ result = None
    /\ store = InitialStore
    /\ reflog = <<>>
    /\ procs = [c \in Callers |-> Idle]
    /\ github = Some(GitHubService(Some("tok"), None, TRUE, 30))

NextGit ==
    \E c \in Callers :
        \/ PushToPullRequest(c)
        \/ PushFilesToBranch(c)
        \/ CreateBranch(c)

SpecGit == InitGit /\ [][NextGit]_vars

\* every operation of GitHubService
NextGitHub ==
    \E c \in Callers :
        \/ GetRepositoryOp(c)
        \/ PushToPullRequest(c)
        \/ CreateBranch(c)
        \/ PushFilesToBranch(c)
        \/ CreatePullRequestComment(c)
        \/ OtherOperation(c)

SpecGitHub == InitGit /\ [][NextGitHub]_vars

-----------------------------------------------------------------------------
(* Claims about GitHubService.push_to_pull_request *)

\* caller c runs op and has made the remote call name successfully
Made(c, op, name) ==
    /\ procs[c].op = op
    /\ \E i \in 1..Len(procs[c].calls) : procs[c].calls[i].name = name /\ procs[c].calls[i].ok

CallsOf(c, name) == {i \in 1..Len(procs[c].calls) : procs[c].calls[i].name = name}

Succeeded(c, op) ==
    procs[c].op = op /\ procs[c].result # None /\ procs[c].result[1].kind = "return"

Failed(c, op) ==
    procs[c].op = op /\ procs[c].result # None /\ procs[c].result[1].kind = "raise"

\* the references of the remote that caller c moved or created
EditsBy(c) == {i \in 1..Len(reflog) : reflog[i].by = c}

\* the entries of the tree object that caller c read
TreeRead(c) == store.objects[procs[c].tree[1].sha].tree

\* the positions in entries whose path is not in paths
KeptPositions(entries, paths) == {i \in 1..Len(entries) : entries[i].path \notin paths}

\* submitted starts with the entries of read whose path is not in paths, unchanged
\* and in the order read
KeepsOthers(submitted, read, paths) ==
    LET kept == KeptPositions(read, paths)
    IN /\ Len(submitted) >= Cardinality(kept)
       /\ \A j \in kept :
            submitted[Cardinality({i \in kept : i <= j})] = read[j]

\* C13: the entry list push_to_pull_request submits to create_git_tree is every
\* entry of the recursive tree it read whose path differs from file_path, with
\* path, mode, type and sha unchanged, followed by exactly one entry for
\* file_path with mode "100644", type "blob" and the sha of the blob just
\* created from content; no second entry has the path file_path.
C13_TreeRebuilt ==
    \A c \in Callers :
        Made(c, "push_to_pull_request", "create_git_tree") =>
            LET submitted == procs[c].calls[CHOOSE i \in CallsOf(c, "create_git_tree") : TRUE].args[1]
                file_path == procs[c].args.file_path
                new == submitted[Len(submitted)]
            IN /\ Cardinality(CallsOf(c, "create_git_tree")) = 1
               /\ KeepsOthers(submitted, TreeRead(c), {file_path})
               /\ Len(submitted) = Cardinality(KeptPositions(TreeRead(c), {file_path})) + 1
               /\ new.path = file_path /\ new.mode = "100644" /\ new.type = "blob"
               /\ store.objects[new.sha] = Blob(procs[c].args.content)
               /\ Cardinality({i \in 1..Len(submitted) : submitted[i].path = file_path}) = 1

\* a push to a.py, which the tree read holds with mode 100755: its entry is replaced
C13_Witness ==
    \E c \in Callers :
        /\ Made(c, "push_to_pull_request", "create_git_tree")
        /\ procs[c].args.file_path = "a.py"
        /\ \E i \in 1..Len(TreeRead(c)) : TreeRead(c)[i].path = "a.py"
        /\ Len(procs[c].tree_elements) = 2
        /\ procs[c].tree_elements[1].path = "o.py"
        /\ procs[c].tree_elements[2].mode = "100644"

\* C14: a push_to_pull_request that returned made exactly one create_git_commit
\* call, for the tree it had just created and with the commit it read through
\* the branch reference as sole parent; the branch reference was moved exactly
\* once by it, to that commit; the commit_sha returned is the sha the reference
\* was moved to.
C14_OneCommitOneRefUpdate ==
    \A c \in Callers :
        Succeeded(c, "push_to_pull_request") =>
            LET commits == CallsOf(c, "create_git_commit")
                made == procs[c].calls[CHOOSE i \in commits : TRUE]
                edits == EditsBy(c)
                edit == reflog[CHOOSE i \in edits : TRUE]
                returned == procs[c].result[1].value
            IN /\ Cardinality(commits) = 1
               /\ made.args[2] = procs[c].new_tree[1]
               /\ made.args[3] = <<procs[c].ref[1].sha>>
               /\ store.objects[procs[c].new_commit[1]] =
                    Commit(procs[c].args.message, procs[c].new_tree[1], <<procs[c].ref[1].sha>>)
               /\ store.objects[procs[c].new_tree[1]].type = "tree"
               /\ Cardinality(CallsOf(c, "ref_edit")) = 1
               /\ Cardinality(edits) = 1
               /\ edit.branch = procs[c].args.branch
               /\ edit.sha = procs[c].new_commit[1]
               /\ returned.commit_sha = edit.sha

\* a push to main that returned, and moved main from commit 4 to a new commit
C14_Witness ==
    \E c \in Callers :
        /\ Succeeded(c, "push_to_pull_request")
        /\ procs[c].args.branch = "main"
        /\ procs[c].ref[1].sha = 4
        /\ procs[c].result[1].value.commit_sha > 4
        /\ store.refs["main"] = Some(procs[c].result[1].value.commit_sha)

-----------------------------------------------------------------------------
(* Claims about GitHubService.push_files_to_branch *)

\* C17: the entry list push_files_to_branch submits to create_git_tree is every
\* entry of the recursive tree it read whose path is not a key of files,
\* unchanged, followed by one entry per key of files with mode "100644", type
\* "blob" and the sha of a blob created by this call from that key's content,
\* whether or not the tree read had the path; one create_git_blob call is made
\* per key; a call that returned gives files as exactly the keys, and moved the
\* branch reference exactly once, to the new commit.
C17_FilesTreeRebuilt ==
    \A c \in Callers :
        LET files == procs[c].args.files
            file_paths == {files[i].path : i \in 1..Len(files)}
            submitted == procs[c].calls[CHOOSE i \in CallsOf(c, "create_git_tree") : TRUE].args[1]
            nkept == Cardinality(KeptPositions(TreeRead(c), file_paths))
            blobs == CallsOf(c, "create_git_blob")
            edits == EditsBy(c)
            returned == procs[c].result[1].value
        IN /\ Made(c, "push_files_to_branch", "create_git_tree") =>
                /\ Cardinality(CallsOf(c, "create_git_tree")) = 1
                /\ KeepsOthers(submitted, TreeRead(c), file_paths)
                /\ Len(submitted) = nkept + Len(files)
                /\ Cardinality(blobs) = Len(files)
                /\ \A k \in 1..Len(files) :
                     LET new == submitted[nkept + k]
                     IN /\ new.path = files[k].path
                        /\ new.mode = "100644" /\ new.type = "blob"
                        /\ store.objects[new.sha] = Blob(files[k].content)
                        /\ \E i \in blobs : /\ procs[c].calls[i].ok
                                            /\ procs[c].calls[i].args = <<files[k].content>>
                        /\ Cardinality({i \in 1..Len(submitted) :
                                            submitted[i].path = files[k].path}) = 1
           /\ Succeeded(c, "push_files_to_branch") =>
                /\ {returned.files[i] : i \in 1..Len(returned.files)} = file_paths
                /\ Len(returned.files) = Cardinality(file_paths)
                /\ Cardinality(CallsOf(c, "ref_edit")) = 1
                /\ Cardinality(edits) = 1
                /\ reflog[CHOOSE i \in edits : TRUE].branch = procs[c].args.branch
                /\ reflog[CHOOSE i \in edits : TRUE].sha = procs[c].new_commit[1]
                /\ returned.commit_sha = procs[c].new_commit[1]

\* a push of a.py, which the tree read holds, and b.py, which it does not
C17_Witness ==
    \E c \in Callers :
        /\ Succeeded(c, "push_files_to_branch")
        /\ Keys(procs[c].args.files) = <<"b.py", "a.py">>
        /\ Len(procs[c].tree_elements) = 3
        /\ procs[c].tree_elements[1].path = "o.py"
        /\ procs[c].result[1].value.files = <<"b.py", "a.py">>
        /\ store.refs[procs[c].args.branch] = Some(procs[c].new_commit[1])

-----------------------------------------------------------------------------
(* Claims about concurrent and failing commit operations *)

CommitOps == {"push_to_pull_request", "push_files_to_branch"}

\* caller c has made the remote call name, whatever came of it
Attempted(c, name) == CallsOf(c, name) # {}

\* two commit operations on one branch that read the same commit through the
\* branch reference, each wrote a file and built its own commit on it, and both
\* sent their reference update
Racing(c1, c2) ==
    /\ c1 # c2
    /\ procs[c1].op \in CommitOps /\ procs[c2].op \in CommitOps
    /\ procs[c1].args.branch = procs[c2].args.branch
    /\ Attempted(c1, "ref_edit") /\ Attempted(c2, "ref_edit")
    /\ procs[c1].commit[1].sha = procs[c2].commit[1].sha
    /\ procs[c1].blobs # <<>> /\ procs[c2].blobs # <<>>
    /\ procs[c1].new_commit # procs[c2].new_commit

\* the remote served every call of caller c that it could serve
NoServerError(c) ==
    \A status \in ServerErrors : procs[c].result # Some(Raised(GithubException(status)))

C16_RefUpdateLast ==
    [][\A c \in Callers :
          (procs'[c] # procs[c] /\ procs'[c].op \in CommitOps) =>
              LET calls == procs'[c].calls
                  last == calls[Len(calls)]
              IN /\ (~(Len(calls) > Len(procs[c].calls) /\ last.name = "ref_edit" /\ last.ok))
                        => store'.refs = store.refs
                 /\ \A i \in 1..Len(calls) :
                      (calls[i].name = "ref_edit" \/ ~calls[i].ok) =>
                          /\ i = Len(calls)
                          /\ procs'[c].pc = "done"
                 /\ \A i \in 1..Len(calls) :
                      ~calls[i].ok =>
                          /\ procs'[c].result # None
                          /\ procs'[c].result[1].kind = "raise"
                          /\ \/ procs'[c].result[1].value = calls[i].error[1]
                             \/ /\ procs'[c].op = "push_files_to_branch"
                                /\ calls[i].name = "get_git_ref"
                                /\ procs'[c].result[1].value =
                                     ValueError(<<"Branch", procs'[c].args.branch,
                                                  "not found", calls[i].error[1]>>)]_vars

\* a push whose commit creation failed: no reference update was sent and the
\* branch is where the operation found it
C16_Witness ==
    \E c \in Callers :
        /\ Failed(c, "push_to_pull_request")
        /\ procs[c].calls[Len(procs[c].calls)].name = "create_git_commit"
        /\ ~procs[c].calls[Len(procs[c].calls)].ok
        /\ ~Attempted(c, "ref_edit")
        /\ procs[c].result[1].value \in {GithubException(status) : status \in ServerErrors}
        /\ store.refs[procs[c].args.branch] = Some(procs[c].ref[1].sha)

-----------------------------------------------------------------------------
(* Claims about GitHubService.create_branch *)

\* create_branch of caller c has looked the target branch up: its second call
TargetLookedUp(c) == procs[c].op = "create_branch" /\ Len(procs[c].calls) >= 2

\* the lookups create_branch of caller c made of the reference of branch b
LookupsOf(c, b) ==
    {i \in CallsOf(c, "get_git_ref") : procs[c].calls[i].args = <<b>>}

\* C18: whenever the lookup of the target branch resolves, create_branch raises
\* the ValueError "Branch <branch> already exists", whether the base branch
\* exists or not; it makes no further remote call, so the base branch is not
\* looked up and no reference is created.
C18_ExistingTargetRejected ==
    \A c \in Callers :
        (TargetLookedUp(c) /\ procs[c].calls[2].ok) =>
            /\ procs[c].calls[2].name = "get_git_ref"
            /\ procs[c].calls[2].args = <<procs[c].args.branch>>
            /\ procs[c].result =
                 Some(Raised(ValueError(<<"Branch", procs[c].args.branch, "already exists">>)))
            /\ Len(procs[c].calls) = 2
            /\ ~Attempted(c, "create_git_ref")
            /\ EditsBy(c) = {}

\* main exists: create_branch(main, base main) and create_branch(main, base dev,
\* which does not exist) are both rejected after the first lookup
C18_Witness ==
    \E c1, c2 \in Callers :
        /\ procs[c1].op = "create_branch" /\ procs[c2].op = "create_branch"
        /\ procs[c1].args = [branch |-> "main", base_branch |-> "main"]
        /\ procs[c2].args = [branch |-> "main", base_branch |-> "dev"]
        /\ procs[c1].result = Some(Raised(ValueError(<<"Branch", "main", "already exists">>)))
        /\ procs[c2].result = Some(Raised(ValueError(<<"Branch", "main", "already exists">>)))
        /\ store.refs["dev"] = None
        /\ Len(procs[c2].calls) = 2

\* C19: when the lookup of the target branch reports not-found and the lookup
\* of the base branch fails, create_branch raises the ValueError "Base branch
\* <base_branch> not found: <the failure>", which is not the "already exists"
\* one, and creates no reference.
C19_MissingBaseRejected ==
    \A c \in Callers :
        (/\ TargetLookedUp(c)
         /\ procs[c].calls[2].error = Some(GithubException(404))
         /\ Len(procs[c].calls) >= 3
         /\ ~procs[c].calls[3].ok) =>
            /\ procs[c].calls[3].name = "get_git_ref"
            /\ procs[c].calls[3].args = <<procs[c].args.base_branch>>
            /\ Failed(c, "create_branch")
            /\ procs[c].result[1].value =
                 ValueError(<<"Base branch", procs[c].args.base_branch, "not found",
                              procs[c].calls[3].error[1]>>)
            /\ procs[c].result[1].value.message[3] # "already exists"
            /\ Len(procs[c].calls) = 3
            /\ ~Attempted(c, "create_git_ref")
            /\ EditsBy(c) = {}

\* create_branch(dev, base dev) while dev does not exist
C19_Witness ==
    \E c \in Callers :
        /\ Failed(c, "create_branch")
        /\ procs[c].args = [branch |-> "dev", base_branch |-> "dev"]
        /\ Len(procs[c].calls) = 3
        /\ procs[c].calls[3].error = Some(GithubException(404))
        /\ procs[c].result[1].value =
             ValueError(<<"Base branch", "dev", "not found", GithubException(404)>>)
        /\ store.refs["dev"] = None

\* C20: a create_branch that returned looked the target up and got not-found,
\* looked the base up and got its reference, then made exactly one
\* create_git_ref call, for refs/heads/<branch> and the sha the base lookup
\* returned, which created that one reference; it returns branch, base_branch
\* and that sha.
C20_BranchCreated ==
    \A c \in Callers :
        Succeeded(c, "create_branch") =>
            LET branch == procs[c].args.branch
                base_branch == procs[c].args.base_branch
                sha == procs[c].base_ref[1].sha
                created == CallsOf(c, "create_git_ref")
                edits == EditsBy(c)
            IN /\ Len(procs[c].calls) = 4
               /\ procs[c].calls[2] =
                    RemoteCall("get_git_ref", <<branch>>, Some(GithubException(404)))
               /\ procs[c].calls[3] = RemoteCall("get_git_ref", <<base_branch>>, None)
               /\ procs[c].base_ref[1].branch = base_branch
               /\ created = {4}
               /\ procs[c].calls[4] =
                    RemoteCall("create_git_ref", <<<<"refs", "heads", branch>>, sha>>, None)
               /\ Cardinality(edits) = 1
               /\ reflog[CHOOSE i \in edits : TRUE].branch = branch
               /\ reflog[CHOOSE i \in edits : TRUE].sha = sha
               /\ procs[c].result[1].value =
                    [branch |-> branch, base_branch |-> base_branch, commit_sha |-> sha]

\* create_branch(dev, base main) returned: dev is at commit 4, where main was
C20_Witness ==
    \E c \in Callers :
        /\ Succeeded(c, "create_branch")
        /\ procs[c].args = [branch |-> "dev", base_branch |-> "main"]
        /\ procs[c].result[1].value.commit_sha = 4
        /\ store.refs["dev"] = Some(4)
        /\ store.refs["main"] = Some(4)

\* C21: in the existence check of create_branch a GithubException with status
\* 404 lets the operation go on to the base lookup; a GithubException with any
\* other status is raised to the caller as it is, after which no further remote
\* call is made: the base branch is not looked up and no reference is created.
C21_OnlyNotFoundMeansAbsent ==
    \A c \in Callers :
        (TargetLookedUp(c) /\ ~procs[c].calls[2].ok) =>
            LET e == procs[c].calls[2].error[1]
            IN IF e.status = 404
               THEN /\ procs[c].result # Some(Raised(e))
                    /\ Len(procs[c].calls) = 2 =>
                         procs[c].pc = "get_base_ref" /\ procs[c].result = None
                    /\ Len(procs[c].calls) >= 3 =>
                         procs[c].calls[3].args = <<procs[c].args.base_branch>>
               ELSE /\ procs[c].result = Some(Raised(e))
                    /\ procs[c].pc = "done"
                    /\ Len(procs[c].calls) = 2
                    /\ LookupsOf(c, procs[c].args.base_branch) \subseteq {2}
                    /\ ~Attempted(c, "create_git_ref")
                    /\ EditsBy(c) = {}

\* create_branch(dev, base main) whose existence check got a 500: dev is still
\* absent; and one whose check got the 404 and went on
C21_Witness ==
    \E c1, c2 \in Callers :
        /\ procs[c1].op = "create_branch" /\ procs[c2].op = "create_branch"
        /\ procs[c1].args = [branch |-> "dev", base_branch |-> "main"]
        /\ procs[c1].result \in {Some(Raised(GithubException(status))) : status \in ServerErrors}
        /\ Len(procs[c1].calls) = 2
        /\ Len(procs[c2].calls) = 3
        /\ procs[c2].calls[2].error = Some(GithubException(404))
        /\ store.refs["dev"] = None

-----------------------------------------------------------------------------
(* Claims about the failures of the reference lookups *)

\* the lookups that are wrapped in try ... except Exception: the branch lookup
\* of push_files_to_branch and the base lookup of create_branch, as positions
\* in the calls of caller c
WrappedLookups(c) ==
    IF procs[c].op = "push_files_to_branch" THEN {2} \cap DOMAIN procs[c].calls
    ELSE IF procs[c].op = "create_branch" THEN {3} \cap DOMAIN procs[c].calls
    ELSE {}

\* C22 as stated: in the branch lookup of push_files_to_branch and in the base
\* lookup of create_branch a GithubException whose status is not 404 reaches
\* the caller unchanged, and is not turned into a "not found" ValueError.
C22_OtherStatusPropagates ==
    \A c \in Callers :
        \A i \in WrappedLookups(c) :
            (~procs[c].calls[i].ok /\ procs[c].calls[i].error[1].status # 404) =>
                procs[c].result = Some(Raised(procs[c].calls[i].error[1]))

\* C23: push_files_to_branch on a branch whose lookup reports not-found raises
\* the ValueError "Branch <branch> not found: <the failure>" and makes no
\* further remote call: no blob, tree or commit is created and no reference is
\* moved by it.
C23_MissingBranchRejected ==
    \A c \in Callers :
        (/\ procs[c].op = "push_files_to_branch"
         /\ Len(procs[c].calls) >= 2
         /\ procs[c].calls[2].error = Some(GithubException(404))) =>
            /\ procs[c].calls[2].name = "get_git_ref"
            /\ procs[c].calls[2].args = <<procs[c].args.branch>>
            /\ procs[c].result =
                 Some(Raised(ValueError(<<"Branch", procs[c].args.branch, "not found",
                                          GithubException(404)>>)))
            /\ Len(procs[c].calls) = 2
            /\ \A name \in {"create_git_blob", "create_git_tree", "create_git_commit",
                            "ref_edit"} : ~Attempted(c, name)
            /\ EditsBy(c) = {}

\* a push of two files to dev, which does not exist: the repository is as it was
C23_Witness ==
    \E c \in Callers :
        /\ Failed(c, "push_files_to_branch")
        /\ procs[c].args.branch = "dev"
        /\ Len(procs[c].args.files) = 2
        /\ procs[c].calls[Len(procs[c].calls)].error = Some(GithubException(404))
        /\ store = InitialStore

-----------------------------------------------------------------------------
(* Claims about every constructed AtlantisService *)

\* C27 as stated: every constructed AtlantisService has an auth mechanism
\* configured: its token headers are set or its basic-auth credential is set.
C27_AuthAlwaysConfigured ==
    Constructed =>
        \/ TokenHeaderNames \subseteq DOMAIN service[1].headers
        \/ service[1].auth # None

\* C28 as stated: every constructed AtlantisService stores a non-empty base_url.
C28_BaseUrlNonEmpty ==
    Constructed => service[1].base_url # <<>>

-----------------------------------------------------------------------------
(* Claims about GitHubService.__init__ *)

GitHubKeywords == {"login_or_token", "verify", "timeout"}

\* C26: GitHubService(token, ...) with token None or "" raises the ValueError
\* "token is required" and builds no client; with a token and a base_url the
\* client is built with that base_url; with a token and no base_url (None or
\* "") the client is built without a base_url argument; in both cases the
\* client gets the token, verify and timeout.
C26_GitHubConstruction ==
    github # None =>
        LET g == github[1]
        IN IF ~TruthyStr(g.token)
           THEN g.raised = Some(ValueError(TokenRequiredError)) /\ g.self = None
           ELSE /\ g.raised = None /\ g.self # None
                /\ LET client == g.self[1].github
                   IN /\ client["login_or_token"] = g.token[1]
                      /\ client["verify"] = g.verify
                      /\ client["timeout"] = g.timeout
                      /\ IF TruthyStr(g.base_url)
                         THEN /\ DOMAIN client = GitHubKeywords \cup {"base_url"}
                              /\ client["base_url"] = g.base_url
                         ELSE DOMAIN client = GitHubKeywords

\* a service built without base_url, verify False and timeout 60, that resolved
\* a repository
C26_Witness ==
    /\ github # None
    /\ github[1].token = Some("tok") /\ github[1].base_url = None
    /\ github[1].self # None
    /\ github[1].self[1].github =
         [k \in GitHubKeywords |->
            CASE k = "login_or_token" -> "tok" [] k = "verify" -> FALSE [] k = "timeout" -> 60]
    /\ \E c \in Callers : Succeeded(c, "get_repository")

-----------------------------------------------------------------------------
(* Claims about every operation of GitHubService *)

\* the callers whose operation has made a remote call
Started == {c \in Callers : procs[c].calls # <<>>}

\* C24: every invocation of an operation makes its first remote call to
\* get_repo, for "owner/repo", and makes no other get_repo call: an operation
\* that has gone past its first call has resolved the repository exactly once,
\* whatever the invocations before it did, so that n invocations make n
\* resolutions.
C24_OneResolutionPerInvocation ==
    /\ \A c \in Callers :
        /\ procs[c].calls # <<>> =>
             /\ procs[c].calls[1].name = "get_repo"
             /\ procs[c].calls[1].args = <<"o/r">>
             /\ CallsOf(c, "get_repo") = {1}
        /\ procs[c].pc \notin {"idle", "get_repo"} => procs[c].calls # <<>>
        /\ procs[c].pc = "done" =>
             Cardinality(CallsOf(c, "get_repo")) = 1
    /\ Cardinality(UNION {{<<c, i>> : i \in CallsOf(c, "get_repo")} : c \in Callers})
         = Cardinality(Started)

\* two invocations that returned, a push and a delete_webhook: two resolutions
C24_Witness ==
    \E c1, c2 \in Callers :
        /\ Succeeded(c1, "push_to_pull_request")
        /\ Succeeded(c2, "delete_webhook")
        /\ Len(procs[c2].calls) = 3
        /\ CallsOf(c1, "get_repo") = {1} /\ CallsOf(c2, "get_repo") = {1}

\* C25 as stated: create_pull_request_comment creates a review comment, with
\* body, commit_id, path, line and side, exactly when commit_id, path and line
\* are all three supplied (not None), whatever their values; otherwise it
\* creates an issue comment with the body; one comment is created per call.
C25_ReviewCommentWhenAllSupplied ==
    \A c \in Callers :
        Succeeded(c, "create_pull_request_comment") =>
            LET a == procs[c].args
                created == procs[c].result[1].value
            IN /\ IF a.commit_id # None /\ a.path # None /\ a.line # None
                  THEN created = ReviewComment(a.body, a.commit_id, a.path, a.line, a.side)
                  ELSE created = IssueComment(a.body)
               /\ Cardinality(CallsOf(c, "create_review_comment")
                              \cup CallsOf(c, "create_issue_comment")) = 1

-----------------------------------------------------------------------------
(* Claims about concurrent create_branch calls *)

\* two create_branch calls for one branch name whose existence checks both
\* reported not-found and which both sent their create_git_ref
CreateRacing(c1, c2) ==
    /\ c1 # c2
    /\ procs[c1].op = "create_branch" /\ procs[c2].op = "create_branch"
    /\ procs[c1].args.branch = procs[c2].args.branch
    /\ \A c \in {c1, c2} :
        /\ Len(procs[c].calls) = 4
        /\ procs[c].calls[2].error = Some(GithubException(404))
        /\ procs[c].calls[4].name = "create_git_ref"

\* C29: when two create_branch calls for the same new branch both run their
\* existence check before either creates the reference, both pass the check
\* and both send create_git_ref; at most one creation is accepted; the other
\* caller gets the GithubException of create_git_ref (status 422 when the
\* remote refuses the existing name), not the ValueError "already exists"; the
\* branch points at the base sha the winner read.
C29_CreateRace ==
    \A c1, c2 \in Callers :
        (CreateRacing(c1, c2) /\ Succeeded(c1, "create_branch")) =>
            /\ Failed(c2, "create_branch")
            /\ procs[c2].result[1].value.type = "GithubException"
            /\ procs[c2].result[1].value = procs[c2].calls[4].error[1]
            /\ NoServerError(c2) => procs[c2].result[1].value.status = Unprocessable
            /\ EditsBy(c2) = {}
            /\ Cardinality(EditsBy(c1)) = 1
            /\ store.refs[procs[c1].args.branch] = Some(procs[c1].base_ref[1].sha)

\* two create_branch(dev, base main) whose checks both passed: one created dev
\* at commit 4, the other was refused by the remote
C29_Witness ==
    \E c1, c2 \in Callers :
        /\ CreateRacing(c1, c2)
        /\ procs[c1].args = [branch |-> "dev", base_branch |-> "main"]
        /\ Succeeded(c1, "create_branch")
        /\ procs[c2].result = Some(Raised(GithubException(Unprocessable)))
        /\ store.refs["dev"] = Some(4)

-----------------------------------------------------------------------------
(* Claims about the two commit operations *)

\* caller c1 runs push_to_pull_request(path, content) and caller c2 runs
\* push_files_to_branch({path: content}) on the same existing branch with the
\* same message; they have made as many remote calls, the remote answered the
\* calls of the one as it answered the calls of the other, and both read the
\* same reference
SamePush(c1, c2) ==
    /\ procs[c1].op = "push_to_pull_request" /\ procs[c2].op = "push_files_to_branch"
    /\ procs[c1].args.branch = procs[c2].args.branch
    /\ procs[c1].args.message = procs[c2].args.message
    /\ procs[c2].args.files =
         <<[path |-> procs[c1].args.file_path, content |-> procs[c1].args.content]>>
    /\ Len(procs[c1].calls) = Len(procs[c2].calls)
    /\ \A i \in 1..Len(procs[c1].calls) :
         /\ procs[c1].calls[i].error = procs[c2].calls[i].error
         /\ procs[c1].calls[i].error # Some(GithubException(404))
    /\ procs[c1].ref = procs[c2].ref

\* C30 as stated: on an existing branch push_to_pull_request(path, content)
\* and push_files_to_branch({path: content}) make the same remote calls with
\* the same arguments and end alike: both still running, both raising the same
\* exception, or both returning the same commit_sha, branch and message, the
\* one with file_path and the other with files = [file_path].
C30_PushEquivalent ==
    \A c1, c2 \in Callers :
        SamePush(c1, c2) =>
            /\ \A i \in 1..Len(procs[c1].calls) :
                 /\ procs[c1].calls[i].name = procs[c2].calls[i].name
                 /\ procs[c1].calls[i].args = procs[c2].calls[i].args
            /\ procs[c1].pc = procs[c2].pc
            /\ \/ procs[c1].result = None /\ procs[c2].result = None
               \/ /\ Failed(c1, "push_to_pull_request") /\ Failed(c2, "push_files_to_branch")
                  /\ procs[c1].result = procs[c2].result
               \/ /\ Succeeded(c1, "push_to_pull_request")
                  /\ Succeeded(c2, "push_files_to_branch")
                  /\ LET r1 == procs[c1].result[1].value
                         r2 == procs[c2].result[1].value
                     IN /\ r1.commit_sha = r2.commit_sha
                        /\ r1.branch = r2.branch
                        /\ r1.message = r2.message
                        /\ r2.files = <<r1.file_path>>

====
